---- MODULE Spec2Model ----
(***************************************************************************)
(* Client-side synchronization and optimistic-update core of the chat      *)
(* client: the request queue, the message store with its optimistic        *)
(* reaction ledger, the send handler, and the two polling engines of       *)
(* useChatSync.js.                                                         *)
(*                                                                         *)
(* The program is single-threaded (JavaScript event loop): every action    *)
(* below is one synchronous run of a handler, from its entry or from the   *)
(* continuation of an await to the next await, timers and promise          *)
(* callbacks included.                                                     *)
(***************************************************************************)
EXTENDS Integers, Sequences, FiniteSets, TLC

(***************************************************************************)
(* Bounds of the model.                                                    *)
(***************************************************************************)
NReq == 3
MaxCalls == 2
MaxNow == 1
MaxLedger == 2
MaxReacting == 1
MaxSends == 2
TimerCap == 4
MaxClock == 8
MaxRetryCount == 2
MaxErrors == 2
MaxRetryTimers == 2
MaxCycles == 2
MaxIntervalNow == 3

(***************************************************************************)
(* Generic helpers.                                                        *)
(***************************************************************************)
Range(s) == {s[i] : i \in 1..Len(s)}

\* JavaScript object spread {...a, ...b}: the fields of b win.
Spread(a, b) ==
  [f \in (DOMAIN a) \cup (DOMAIN b) |-> IF f \in DOMAIN b THEN b[f] ELSE a[f]]

\* Array.prototype.filter(x => x # v)
RECURSIVE Without(_, _)
Without(s, v) ==
  IF s = <<>> THEN <<>>
  ELSE IF Head(s) = v THEN Without(Tail(s), v)
       ELSE <<Head(s)>> \o Without(Tail(s), v)

Null == "null"

VARIABLES
  \* ---- RequestQueue (src/unnamed/part_019) ----
  queue,        \* this.queue: the queued entries, each the id of its request
  processing,   \* this.processing
  inflight,     \* requests whose request() promise is pending in process()
  kickTimers,   \* pending setTimeout(() => this.process(), 100), oldest first
  retryTimers,  \* pending 409 retry timers setTimeout(..., 1000), oldest first
  promise,      \* state of the promise add() returned, per request
  calls,        \* number of invocations of request(), per request
  started,      \* order in which request() invocations began
  cleared,      \* history: clear() has been called
  answer,       \* the status every attempt of an operation is answered with
                \* (0: not modelled)
  dropped,      \* history: the operations that were queued, or waiting out a
                \* 409 retry delay, when clear() was called
  added,        \* history: the requests in the order add() was called
  \* ---- message store (src/unnamed/part_031, src/src/state/messageStore.js)
  messages,           \* messages: the list of message records
  optimisticMessages, \* optimisticMessages: Map from key to ledger entry
  now,                \* the reading of Date.now()
  returned,           \* what the last call into the store returned
  \* ---- message input (src/unnamed/part_015) ----
  sending,            \* the component state `sending`
  sendTemp,           \* tempMessage of the send in flight
  sent,               \* number of sends the server has answered
  reacting,     \* the optimistic keys of the reaction requests in flight
  \* ---- session store (src/src/state/sessionStore.js) ----
  sessionUuid,        \* sessionUuid ('' when no session is stored)
  apiVersion,         \* apiVersion
  lastUpdateTime,     \* lastUpdateTime: the sync cursor (0 when unset)
  \* ---- participant store (src/src/state/participantStore.js) ----
  participants,       \* participants: the list of participant records
  \* ---- the chat server ----
  serverSession,      \* the session the server currently runs
  \* ---- useChatSync (src/src/hooks/useChatSync.js:1-418) ----
  retryCount,         \* the component state retryCount
  syncInProgress,     \* syncInProgress.current
  isMounted,          \* isMountedRef.current
  consecutiveErrors,  \* consecutiveErrors.current
  appState,           \* appStateRef.current
  idle,               \* Date.now() - lastActivityRef.current > ACTIVITY_TIMEOUT
  sinceAttempt,       \* clock units since lastSyncAttempt.current (saturating)
  syncTimeout,        \* the timer syncTimeoutRef.current refers to, if pending
  retryTimeouts,      \* pending retry timers, oldest first
  pc,                 \* where the running poll cycle is suspended
  cyc,                \* the running cycle: its closure and what it has read
  \* ---- useChatSync, interval-based (src/src/hooks/useChatSync.js:419-627)
  intervalInProgress, \* syncInProgress.current
  intervalRetryCount, \* retryCount.current
  syncInterval,       \* the setInterval timer syncInterval.current refers to
  intervalRetryTimers,\* pending retry timers, each the closure of its syncData
  cycles,             \* the syncData calls suspended at an await
  intervalMounted,    \* the component is mounted
  \* ---- calls of pure functions ----
  sinceActivity,      \* Date.now() - lastActivityRef.current, in ms
  interval,           \* <<what getCurrentSyncInterval() returned>>, if called
  grouped,            \* <<what groupMessages(messages) returned>>, if called
  \* ---- API client (src/unnamed/part_022:303-453) ----
  apiCall,            \* the call of sendMessage or sendReaction under way
  \* ---- robust storage adapter (src/src/utils/storageUtils.js:225-273) ----
  storage,            \* primary storage, memoryStorage, usingFallback and
                      \* how the promise of the last call settled
  \* ---- useChatRefresh (src/unnamed/part_017:85-152) ----
  refresh,            \* the hook's state, the fetches in flight and whether
                      \* the 'Connection Error' dialog is open
  \* ---- chat screen (src/src/screens/ChatScreen.jsx, MessageInput.jsx) ----
  pendingOps          \* the send and the refresh in flight, each with the
                      \* session the server ran when it took the request

queueVars == <<queue, processing, inflight, kickTimers, retryTimers, promise,
               calls, started, cleared, dropped, added, answer>>

sendVars == <<sending, sendTemp, sent, reacting>>

storeVars == <<messages, optimisticMessages, now, returned, sendVars>>

sessionVars == <<sessionUuid, apiVersion, lastUpdateTime>>

hookVars == <<retryCount, syncInProgress, isMounted, consecutiveErrors,
              appState, idle, sinceAttempt, syncTimeout, retryTimeouts, pc, cyc>>

syncVars == <<sessionVars, participants, serverSession, hookVars>>

intervalVars == <<intervalInProgress, intervalRetryCount, syncInterval,
                  intervalRetryTimers, cycles, intervalMounted>>

utilVars ==
  <<sinceActivity, interval, grouped, apiCall, storage, refresh, pendingOps>>

vars == <<queueVars, storeVars, syncVars, intervalVars, utilVars>>

\* What the actions of one component leave alone.
notQueue == <<storeVars, syncVars, intervalVars, utilVars>>
notStore == <<queueVars, syncVars, intervalVars, utilVars>>
notSync == <<queueVars, optimisticMessages, returned, sendVars, intervalVars,
             utilVars>>
notInterval == <<queueVars, optimisticMessages, returned, sendVars, hookVars,
                 utilVars>>

\* No call of the API client has been made.
NoCall ==
  [fn |-> "none", pc |-> "idle", retries |-> 0, calledTimes |-> 0,
   errors |-> <<>>, outcome |-> "pending"]

StorageKeys == {"chat-messages", "chat-session"}
StorageValues == {"v1", "v2"}

\* createRobustStorageAdapter(storeName) over a primary storage holding
\* `primary`: createMemoryStorage() is empty, usingFallback is false.
RobustStorageAdapter(primary) ==
  [primary |-> primary, fallback |-> [k \in StorageKeys |-> Null],
   usingFallback |-> FALSE,
   ret |-> [op |-> "none", key |-> "none", settled |-> "pending",
            value |-> "undefined"]]

\* useState({refreshing: false, connectionStatus: 'connected', syncError:
\* null}), no fetch in flight, no dialog.
InitRefresh ==
  [refreshing |-> FALSE, connectionStatus |-> "connected", syncError |-> Null,
   fetching |-> 0, alert |-> FALSE]

\* No pure function has been called.
InitUtilUnused ==
  /\ sinceActivity = 0
  /\ interval = <<>>
  /\ grouped = <<>>
  /\ apiCall = NoCall
  /\ storage = RobustStorageAdapter([k \in StorageKeys |-> Null])
  /\ refresh = InitRefresh
  /\ pendingOps = <<>>

(***************************************************************************)
(* Message store with optimistic reactions (src/unnamed/part_031)          *)
(***************************************************************************)
MsgIds == {"m1", "m2"}
Emojis == {"e1", "e2"}
\* Every call site passes 'you' as the acting user (ChatScreen.jsx:253).
Actors == {"you"}

\* A reaction as the server and the reaction mock send it: no isOwnReaction.
ServerReaction(e, ps) == [emoji |-> e, count |-> Len(ps), participants |-> ps]

ServerParticipantLists ==
  {<<"bob">>, <<"bob", "carol">>, <<"bob", "you">>}

\* Reaction lists of a server message: count = |participants| in each
\* reaction, no reactor twice, one reaction per emoji.
ServerReactionLists ==
  {<<>>}
  \cup {<<ServerReaction("e1", ps)>> : ps \in ServerParticipantLists}
  \cup {<<ServerReaction("e1", ps), ServerReaction("e2", <<"carol">>)>> :
          ps \in ServerParticipantLists}

ServerMessage(id, rs) == [uuid |-> id, status |-> "sent", reactions |-> rs]

InitStore ==
  /\ messages = <<>>
  /\ optimisticMessages = <<>>
  /\ now = 0
  /\ returned = "undefined"
  /\ sending = FALSE
  /\ sendTemp = Null
  /\ sent = 0
  /\ reacting = <<>>

\* Message lists as a refresh or the persisted store provides them.
ServerMessageLists ==
  {[i \in 1..Len(ids) |-> ServerMessage(ids[i], IF i = 1 THEN rs ELSE <<>>)] :
     ids \in {<<"m1">>, <<"m1", "m2">>}, rs \in ServerReactionLists}

\* The store after construction with a persisted message list: persist()
\* rehydrates messages, and onRehydrateStorage resets the ledger to empty.
InitStoreRehydrated ==
  /\ messages \in ServerMessageLists \cup {<<>>}
  /\ optimisticMessages = <<>>
  /\ now = 0
  /\ returned = "undefined"
  /\ sending = FALSE
  /\ sendTemp = Null
  /\ sent = 0
  /\ reacting = <<>>

\* messages.find(m => m.uuid === id): index of the first match, 0 if none.
FindIndex(msgs, id) ==
  IF \E i \in 1..Len(msgs) : msgs[i].uuid = id
  THEN CHOOSE i \in 1..Len(msgs) :
         /\ msgs[i].uuid = id
         /\ \A j \in 1..(i - 1) : msgs[j].uuid # id
  ELSE 0

\* reactions.find(r => r.emoji === emoji): index of the first match, 0 if none.
FindReaction(rs, e) ==
  IF \E i \in 1..Len(rs) : rs[i].emoji = e
  THEN CHOOSE i \in 1..Len(rs) :
         /\ rs[i].emoji = e
         /\ \A j \in 1..(i - 1) : rs[j].emoji # e
  ELSE 0

\* messages.map(m => m.uuid === id ? updated : m)
ReplaceById(msgs, id, updated) ==
  [i \in 1..Len(msgs) |-> IF msgs[i].uuid = id THEN updated ELSE msgs[i]]

\* Map.delete(key)
MapDelete(map, key) == [k \in (DOMAIN map) \ {key} |-> map[k]]

\* Map.set(key, value)
MapSet(map, key, value) ==
  [k \in (DOMAIN map) \cup {key} |-> IF k = key THEN value ELSE map[k]]

\* The template string `${messageId}-${emoji}-${userId}-${Date.now()}`.
OptimisticKey(messageId, emoji, userId, t) == <<messageId, emoji, userId, t>>

setMessages(msgs) == msgs

\* updateMessage(updatedMsg): merge into every entry with that uuid.
updateMessage(msgs, updatedMsg) ==
  [i \in 1..Len(msgs) |->
     IF msgs[i].uuid = updatedMsg.uuid THEN Spread(msgs[i], updatedMsg)
     ELSE msgs[i]]

\* addMessage prepending without the test for an entry with that uuid.
addMessageUnchecked(msgs, msg) == <<msg>> \o msgs

\* addMessage(msg): prepend unless the uuid is already present.
addMessage(msgs, msg) ==
  IF \E i \in 1..Len(msgs) : msgs[i].uuid = msg.uuid THEN msgs
  ELSE <<msg>> \o msgs

\* The reaction list addReactionOptimistic writes for the message.
AddedReactions(rs, emoji, userId) ==
  LET i == FindReaction(rs, emoji) IN
  IF i # 0
  THEN [rs EXCEPT ![i] =
          Spread(rs[i], [count |-> rs[i].count + 1,
                         participants |-> Append(rs[i].participants, userId)])]
  ELSE Append(rs, [emoji |-> emoji, count |-> 1, participants |-> <<userId>>,
                   isOwnReaction |-> (userId = "you")])

\* addReactionOptimistic(messageId, emoji, userId) at clock reading t:
\* the new messages, the new ledger and the returned key (Null on refusal).
addReactionOptimistic(msgs, opt, messageId, emoji, userId, t) ==
  LET mi == FindIndex(msgs, messageId) IN
  IF mi = 0 THEN [messages |-> msgs, optimisticMessages |-> opt, ret |-> Null]
  ELSE
    LET message == msgs[mi]
        ri == FindReaction(message.reactions, emoji)
        userAlreadyReacted ==
          ri # 0 /\ userId \in Range(message.reactions[ri].participants)
        optimisticKey == OptimisticKey(messageId, emoji, userId, t)
        entry == [messageId |-> messageId, emoji |-> emoji, userId |-> userId,
                  timestamp |-> t, type |-> "add_reaction"]
        updatedMessage ==
          Spread(message,
                 [reactions |-> AddedReactions(message.reactions, emoji, userId)])
    IN IF userAlreadyReacted
       THEN [messages |-> msgs, optimisticMessages |-> opt, ret |-> Null]
       ELSE [messages |-> ReplaceById(msgs, messageId, updatedMessage),
             optimisticMessages |-> MapSet(opt, optimisticKey, entry),
             ret |-> optimisticKey]

\* confirmReaction(optimisticKey): the new ledger.
confirmReaction(opt, optimisticKey) ==
  IF optimisticKey \in DOMAIN opt THEN MapDelete(opt, optimisticKey) ELSE opt

\* One reaction as revertReaction maps it; <<>> when it is filtered out.
RevertedReaction(r, emoji, userId) ==
  IF r.emoji = emoji
  THEN LET newCount == r.count - 1
           newParticipants == Without(r.participants, userId)
       IN IF newCount <= 0 THEN <<>>
          ELSE <<Spread(r, [count |-> newCount,
                            participants |-> newParticipants,
                            isOwnReaction |-> ("you" \in Range(newParticipants))])>>
  ELSE <<r>>

RECURSIVE RevertedReactions(_, _, _)
RevertedReactions(rs, emoji, userId) ==
  IF rs = <<>> THEN <<>>
  ELSE RevertedReaction(Head(rs), emoji, userId)
         \o RevertedReactions(Tail(rs), emoji, userId)

\* revertReaction(optimisticKey): the new messages and the new ledger.
revertReaction(msgs, opt, optimisticKey) ==
  IF optimisticKey \notin DOMAIN opt
  THEN [messages |-> msgs, optimisticMessages |-> opt]
  ELSE
    LET optimistic == opt[optimisticKey]
        mi == FindIndex(msgs, optimistic.messageId)
    IN IF mi = 0 THEN [messages |-> msgs, optimisticMessages |-> opt]
       ELSE
         LET message == msgs[mi]
             updatedMessage ==
               Spread(message,
                      [reactions |->
                         RevertedReactions(message.reactions, optimistic.emoji,
                                           optimistic.userId)])
         IN [messages |-> ReplaceById(msgs, optimistic.messageId, updatedMessage),
             optimisticMessages |-> MapDelete(opt, optimisticKey)]

\* clearStaleOptimisticUpdates(maxAge) at clock reading t: the new ledger.
clearStaleOptimisticUpdates(opt, t, maxAge) ==
  [k \in {x \in DOMAIN opt : t - opt[x].timestamp < maxAge} |-> opt[k]]

\* ---- actions of the store (src/unnamed/part_031) -------------------------

Void == "undefined"

\* Date.now() advances.
Tick ==
  /\ now < MaxNow
  /\ now' = now + 1
  /\ UNCHANGED <<messages, optimisticMessages, returned, sendVars, notStore>>

\* A sync merge: updateMessage(serverMessage).
UpdateMessage ==
  \E id \in MsgIds, rs \in ServerReactionLists :
    /\ messages' = updateMessage(messages, ServerMessage(id, rs))
    /\ returned' = Void
    /\ UNCHANGED <<optimisticMessages, now, sendVars, notStore>>

AddReactionOptimisticCall(id, e, u) ==
  LET res == addReactionOptimistic(messages, optimisticMessages, id, e, u, now)
  IN /\ Cardinality(DOMAIN optimisticMessages) < MaxLedger
     /\ messages' = res.messages
     /\ optimisticMessages' = res.optimisticMessages
     /\ returned' = res.ret
     /\ UNCHANGED <<now, sendVars, notStore>>

AddReactionOptimistic ==
  \E id \in MsgIds, e \in Emojis, u \in Actors :
    AddReactionOptimisticCall(id, e, u)

ConfirmReaction ==
  \E k \in DOMAIN optimisticMessages :
    /\ optimisticMessages' = confirmReaction(optimisticMessages, k)
    /\ returned' = Void
    /\ UNCHANGED <<messages, now, sendVars, notStore>>

RevertReaction ==
  \E k \in DOMAIN optimisticMessages :
    LET res == revertReaction(messages, optimisticMessages, k)
    IN /\ messages' = res.messages
       /\ optimisticMessages' = res.optimisticMessages
       /\ returned' = Void
       /\ UNCHANGED <<now, sendVars, notStore>>

ClearStaleOptimisticUpdates ==
  \E maxAge \in 1..MaxNow :
    /\ optimisticMessages' =
         clearStaleOptimisticUpdates(optimisticMessages, now, maxAge)
    /\ returned' = Void
    /\ UNCHANGED <<messages, now, sendVars, notStore>>

\* ---- handleReact (src/src/screens/ChatScreen.jsx:250-299) ----------------

\* The sequence s without its i-th element.
RemoveAt(s, i) == [j \in 1..(Len(s) - 1) |-> IF j < i THEN s[j] ELSE s[j + 1]]

\* handleReact up to `await asyncFunction()` in execute(): the optimistic
\* reaction of 'you'; without a key it returns, with one the request is sent.
HandleReactCall(id, e) ==
  LET res == addReactionOptimistic(messages, optimisticMessages, id, e, "you",
                                   now)
  IN /\ Len(reacting) < MaxReacting
     /\ messages' = res.messages
     /\ optimisticMessages' = res.optimisticMessages
     /\ returned' = res.ret
     /\ reacting' = IF res.ret = Null THEN reacting
                    ELSE Append(reacting, res.ret)
     /\ UNCHANGED <<now, sending, sendTemp, sent, notStore>>

HandleReact == \E id \in MsgIds, e \in Emojis : HandleReactCall(id, e)

\* What sendReaction fulfils with: the message as the server has it, or an
\* answer without uuid (the mock of the missing endpoint).
ReactionResponses(id) ==
  {[success |-> TRUE]} \cup {ServerMessage(id, rs) : rs \in ServerReactionLists}

\* onSuccess of the i-th request in flight: confirmReaction(optimisticKey),
\* then updateMessage(serverResponse) if it is the reacted message.
ReactResolved(i) ==
  /\ i \in 1..Len(reacting)
  /\ \E resp \in ReactionResponses(reacting[i][1]) :
       messages' = IF "uuid" \in DOMAIN resp /\ resp.uuid = reacting[i][1]
                   THEN updateMessage(messages, resp)
                   ELSE messages
  /\ optimisticMessages' = confirmReaction(optimisticMessages, reacting[i])
  /\ reacting' = RemoveAt(reacting, i)
  /\ returned' = Void
  /\ UNCHANGED <<now, sending, sendTemp, sent, notStore>>

\* onError of the i-th request in flight: revertReaction(optimisticKey).
ReactRejected(i) ==
  LET res == revertReaction(messages, optimisticMessages, reacting[i])
  IN /\ i \in 1..Len(reacting)
     /\ messages' = res.messages
     /\ optimisticMessages' = res.optimisticMessages
     /\ reacting' = RemoveAt(reacting, i)
     /\ returned' = Void
     /\ UNCHANGED <<now, sending, sendTemp, sent, notStore>>

\* onRefresh: setMessages(latestMessages).
Refresh ==
  \E latest \in ServerMessageLists :
    /\ messages' = setMessages(latest)
    /\ returned' = Void
    /\ UNCHANGED <<optimisticMessages, now, sendVars, notStore>>

NextReact ==
  \/ Tick
  \/ UpdateMessage
  \/ Refresh
  \/ ClearStaleOptimisticUpdates
  \/ HandleReact
  \/ \E i \in 1..MaxReacting : ReactResolved(i)
  \/ \E i \in 1..MaxReacting : ReactRejected(i)

NextLedger ==
  \/ Tick
  \/ UpdateMessage
  \/ AddReactionOptimistic
  \/ ConfirmReaction
  \/ RevertReaction
  \/ ClearStaleOptimisticUpdates

(***************************************************************************)
(* The message store of src/src/state/messageStore.js (its ledger only     *)
(* tracks keys) and the send handler of the message input                  *)
(* (src/unnamed/part_015).  Definitions of this version of the store carry *)
(* the suffix Basic where the name is taken by the version above.          *)
(***************************************************************************)

\* The template string `${messageId}-${emoji}-${Date.now()}`.
TempId(messageId, emoji, t) == <<messageId, emoji, t>>

\* parseInt(tempId.split('-').pop()): the clock reading the key ends with.
TempIdTimestamp(tempId) == tempId[Len(tempId)]

\* addReactionOptimistic(messageId, emoji) at clock reading t.
addReactionOptimisticBasic(opt, messageId, emoji, t) ==
  [optimisticMessages |->
     MapSet(opt, TempId(messageId, emoji, t),
            [messageId |-> messageId, emoji |-> emoji, type |-> "add"]),
   ret |-> TempId(messageId, emoji, t)]

\* confirmReaction(tempId) and revertReaction(tempId): Map.delete(tempId).
confirmReactionBasic(opt, tempId) == MapDelete(opt, tempId)

revertReactionBasic(opt, tempId) == MapDelete(opt, tempId)

\* const staleThreshold = 30000, in clock units of the model.
StaleThresholdBasic == 1

\* clearStaleOptimisticUpdates() at clock reading t.
clearStaleOptimisticUpdatesBasic(opt, t) ==
  [k \in {x \in DOMAIN opt : ~(t - TempIdTimestamp(x) > StaleThresholdBasic)}
     |-> opt[k]]

AddReactionOptimisticBasicCall(id, e) ==
  LET res == addReactionOptimisticBasic(optimisticMessages, id, e, now)
  IN /\ Cardinality(DOMAIN optimisticMessages) < MaxLedger
     /\ optimisticMessages' = res.optimisticMessages
     /\ returned' = res.ret
     /\ UNCHANGED <<messages, now, sendVars, notStore>>

AddReactionOptimisticBasic ==
  \E id \in MsgIds, e \in Emojis : AddReactionOptimisticBasicCall(id, e)

ConfirmReactionBasic ==
  \E k \in DOMAIN optimisticMessages :
    /\ optimisticMessages' = confirmReactionBasic(optimisticMessages, k)
    /\ returned' = Void
    /\ UNCHANGED <<messages, now, sendVars, notStore>>

RevertReactionBasic ==
  \E k \in DOMAIN optimisticMessages :
    /\ optimisticMessages' = revertReactionBasic(optimisticMessages, k)
    /\ returned' = Void
    /\ UNCHANGED <<messages, now, sendVars, notStore>>

ClearStaleOptimisticUpdatesBasic ==
  /\ optimisticMessages' =
       clearStaleOptimisticUpdatesBasic(optimisticMessages, now)
  /\ returned' = Void
  /\ UNCHANGED <<messages, now, sendVars, notStore>>

\* ---- handleSend (src/unnamed/part_015) ------------------------------------

Texts == {"hello"}

\* The ids the server assigns to the messages it creates.
ServerIds == {"s1", "s2"}

\* The optimistic message handleSend creates at clock reading t.
TempMessage(text, t) ==
  [uuid |-> "temp-" \o ToString(t), text |-> text, status |-> "sending",
   createdAt |-> t, participant |-> "You"]

\* handleSend up to `await sendMessage(text)`: the guard, setSending(true),
\* the optimistic addMessage.
HandleSend ==
  \E text \in Texts :
    /\ ~sending
    /\ sent < MaxSends
    /\ sending' = TRUE
    /\ sendTemp' = TempMessage(text, now)
    /\ messages' = addMessage(messages, TempMessage(text, now))
    /\ returned' = Void
    /\ UNCHANGED <<optimisticMessages, now, sent, reacting, notStore>>

\* The message the server answers a send of `text` with.
NewMessage(id, text, t) ==
  [uuid |-> id, text |-> text, createdAt |-> t, participant |-> "You",
   reactions |-> <<>>]

\* Continuation when sendMessage fulfilled with newMessage:
\* updateMessage({...newMessage, status: 'sent'}); finally setSending(false).
SendResolvedWith(id) ==
  /\ sending
  /\ id = IF sent = 0 THEN "s1" ELSE "s2"
  /\ messages' = updateMessage(messages,
                   Spread(NewMessage(id, sendTemp.text, now), [status |-> "sent"]))
  /\ sending' = FALSE
  /\ sent' = sent + 1
  /\ returned' = Void
  /\ UNCHANGED <<sendTemp, optimisticMessages, now, reacting, notStore>>

SendResolved == \E id \in ServerIds : SendResolvedWith(id)

\* Continuation when sendMessage rejected:
\* updateMessage({...tempMessage, status: 'failed', error}); finally.
SendRejected ==
  /\ sending
  /\ messages' = updateMessage(messages,
                   Spread(sendTemp, [status |-> "failed", error |-> "error"]))
  /\ sending' = FALSE
  /\ sent' = sent + 1
  /\ returned' = Void
  /\ UNCHANGED <<sendTemp, optimisticMessages, now, reacting, notStore>>

NextStore ==
  \/ Tick
  \/ UpdateMessage
  \/ HandleSend
  \/ SendResolved
  \/ SendRejected
  \/ AddReactionOptimisticBasic
  \/ ConfirmReactionBasic
  \/ RevertReactionBasic
  \/ ClearStaleOptimisticUpdatesBasic

(***************************************************************************)
(* RequestQueue                                                            *)
(***************************************************************************)
ReqIds == 1..NReq

MAX_RETRIES == 3

InitQueue ==
  /\ queue = <<>>
  /\ processing = FALSE
  /\ inflight = {}
  /\ kickTimers = <<>>
  /\ retryTimers = <<>>
  /\ promise = [r \in ReqIds |-> "none"]
  /\ calls = [r \in ReqIds |-> 0]
  /\ started = <<>>
  /\ cleared = FALSE
  /\ dropped = {}
  /\ added = <<>>

\* process(): the synchronous part up to `await request()`, applied to a
\* queue q, flag p, in-flight set f, call counts c and start order s.
process(q, p, f, c, s) ==
  IF p \/ q = <<>>
  THEN [queue |-> q, processing |-> p, inflight |-> f, calls |-> c,
        started |-> s]
  ELSE [queue |-> Tail(q), processing |-> TRUE,
        inflight |-> f \cup {Head(q)},
        calls |-> [c EXCEPT ![Head(q)] = @ + 1],
        started |-> Append(s, Head(q))]

ApplyProcess(st) ==
  /\ queue' = st.queue
  /\ processing' = st.processing
  /\ inflight' = st.inflight
  /\ calls' = st.calls
  /\ started' = st.started

\* add(request) putting the entry at the front: unshift instead of push.
addFront(r) ==
  /\ promise[r] = "none"
  /\ promise' = [promise EXCEPT ![r] = "pending"]
  /\ added' = Append(added, r)
  /\ ApplyProcess(process(<<r>> \o queue, processing, inflight, calls,
                          started))
  /\ UNCHANGED <<kickTimers, retryTimers, cleared, dropped, answer, notQueue>>

\* add(request): push the entry and call process().
add(r) ==
  /\ promise[r] = "none"
  /\ promise' = [promise EXCEPT ![r] = "pending"]
  /\ added' = Append(added, r)
  /\ ApplyProcess(process(Append(queue, r), processing, inflight, calls,
                          started))
  /\ UNCHANGED <<kickTimers, retryTimers, cleared, dropped, answer, notQueue>>

\* The timer identity of the process() kick set by the finally block of the
\* attempt of r that just ended.
KickOf(r) == <<r, calls[r]>>

\* Continuation of `await request()` when the request fulfilled:
\* resolve(result); finally { processing = false; setTimeout(process, 100) }.
requestResolved(r) ==
  /\ r \in inflight
  /\ inflight' = inflight \ {r}
  /\ promise' = [promise EXCEPT ![r] = "resolved"]
  /\ processing' = FALSE
  /\ kickTimers' = Append(kickTimers, KickOf(r))
  /\ UNCHANGED <<queue, retryTimers, calls, started, cleared, dropped, added,
                 answer, notQueue>>

\* The 409 branch without its retry: reject(error) as for any other error.
requestConflictRejected(r) ==
  /\ r \in inflight
  /\ calls[r] < MaxCalls
  /\ inflight' = inflight \ {r}
  /\ promise' = [promise EXCEPT ![r] = "rejected"]
  /\ processing' = FALSE
  /\ kickTimers' = Append(kickTimers, KickOf(r))
  /\ UNCHANGED <<queue, retryTimers, calls, started, cleared, dropped, added,
                 answer, notQueue>>

\* Continuation when the request rejected with a 409: the retry timer is
\* set, the promise stays pending, and the finally block runs as always.
requestConflict(r) ==
  /\ r \in inflight
  /\ calls[r] < MaxCalls
  /\ inflight' = inflight \ {r}
  /\ retryTimers' = Append(retryTimers, r)
  /\ processing' = FALSE
  /\ kickTimers' = Append(kickTimers, KickOf(r))
  /\ UNCHANGED <<queue, promise, calls, started, cleared, dropped, added,
                 answer, notQueue>>

\* Continuation when the request rejected with any other error.
requestRejected(r) ==
  /\ r \in inflight
  /\ inflight' = inflight \ {r}
  /\ promise' = [promise EXCEPT ![r] = "rejected"]
  /\ processing' = FALSE
  /\ kickTimers' = Append(kickTimers, KickOf(r))
  /\ UNCHANGED <<queue, retryTimers, calls, started, cleared, dropped, added,
                 answer, notQueue>>

\* The 100 ms timer of a finally block fires: this.process().
kickFire ==
  /\ kickTimers # <<>>
  /\ kickTimers' = Tail(kickTimers)
  /\ ApplyProcess(process(queue, processing, inflight, calls, started))
  /\ UNCHANGED <<retryTimers, promise, cleared, dropped, added,
                 answer, notQueue>>

\* The 1000 ms retry timer fires: unshift the entry, processing = false,
\* process().  It was set together with a 100 ms kick, which fires first.
retryFire ==
  /\ retryTimers # <<>>
  /\ KickOf(Head(retryTimers)) \notin Range(kickTimers)
  /\ retryTimers' = Tail(retryTimers)
  /\ ApplyProcess(process(<<Head(retryTimers)>> \o queue, FALSE, inflight,
                          calls, started))
  /\ UNCHANGED <<kickTimers, promise, cleared, dropped, added,
                 answer, notQueue>>

\* clear()
clear ==
  /\ queue' = <<>>
  /\ processing' = FALSE
  /\ cleared' = TRUE
  /\ dropped' = dropped \cup Range(queue) \cup Range(retryTimers)
  /\ UNCHANGED <<inflight, kickTimers, retryTimers, promise, calls, started,
                 added, answer, notQueue>>

\* No operation's answers are modelled: the outcome of each attempt is free.
NoAnswer == [r \in ReqIds |-> 0]

\* The statuses an operation can be answered with.
Statuses == {200, 400, 409, 500}

\* withRetry(fn, retries) around an operation every attempt of which is
\* answered with status a: the status it settles with and the number of
\* times it ran fn.
RECURSIVE withRetry(_, _)
withRetry(a, retries) ==
  IF a = 200
  THEN [status |-> a, attempts |-> 1]
  ELSE IF retries > 0 /\ a >= 500
       THEN [withRetry(a, retries - 1) EXCEPT !.attempts = @ + 1]
       ELSE [status |-> a, attempts |-> 1]

\* Continuation of `await request()` for an operation wrapped by withRetry:
\* the try, catch and finally of process() on the status withRetry settled
\* with.
requestSettled(r) ==
  /\ r \in inflight
  /\ LET o == withRetry(answer[r], MAX_RETRIES)
     IN  /\ promise' = [promise EXCEPT ![r] =
                          IF o.status = 200 THEN "resolved"
                          ELSE IF o.status = 409 THEN @
                          ELSE "rejected"]
         /\ retryTimers' = IF o.status = 409 THEN Append(retryTimers, r)
                           ELSE retryTimers
  /\ inflight' = inflight \ {r}
  /\ processing' = FALSE
  /\ kickTimers' = Append(kickTimers, KickOf(r))
  /\ UNCHANGED <<queue, calls, started, cleared, dropped, added, answer,
                 notQueue>>

\* retryFire with the count of invocations kept no further than MaxCalls
\* and the start order not recorded, so that a retry that goes on for ever
\* is a cycle of finitely many states.
retryFireUncounted ==
  /\ retryTimers # <<>>
  /\ KickOf(Head(retryTimers)) \notin Range(kickTimers)
  /\ retryTimers' = Tail(retryTimers)
  /\ LET st == process(<<Head(retryTimers)>> \o queue, FALSE, inflight,
                       calls, started)
     IN  /\ queue' = st.queue
         /\ processing' = st.processing
         /\ inflight' = st.inflight
         /\ calls' = [r \in ReqIds |-> IF st.calls[r] > MaxCalls
                                       THEN MaxCalls ELSE st.calls[r]]
  /\ UNCHANGED <<kickTimers, promise, started, cleared, dropped, added,
                 answer, notQueue>>

NextWrapped ==
  \/ \E r \in ReqIds : add(r)
  \/ \E r \in ReqIds : requestSettled(r)
  \/ kickFire
  \/ retryFireUncounted

NextQueue ==
  \/ \E r \in ReqIds : add(r)
  \/ \E r \in ReqIds : requestResolved(r)
  \/ \E r \in ReqIds : requestConflict(r)
  \/ \E r \in ReqIds : requestRejected(r)
  \/ kickFire
  \/ retryFire
  \/ clear

(***************************************************************************)
(* useChatSync, the adaptive poll hook (src/src/hooks/useChatSync.js:1-418) *)
(* with the session store and the participant store it drives.             *)
(*                                                                         *)
(* The clock of this part advances in units of TimeUnit milliseconds.  A   *)
(* timer carries the units left until it is due and the closure of its    *)
(* callback; delays beyond TimerCap units all count as TimerCap units.     *)
(* A closure is what one render's performSyncBase/scheduleNextSync         *)
(* captured: sessionUuid, lastUpdateTime and retryCount of that render.    *)
(* The main effect re-runs when a render changes one of them (its          *)
(* dependencies are sessionUuid, performSyncBase, scheduleNextSync), which *)
(* is modelled at the end of the step that changed the state.              *)
(* handleSessionChange and performBatchUpdates run through the request     *)
(* deduplicator (src/src/utils/debounce.js:177-203); its map holds only the *)
(* key of the running cycle, so deduplicate always invokes its function.    *)
(***************************************************************************)
SYNC_INTERVALS_ACTIVE == 30000
SYNC_INTERVALS_BACKGROUND == 120000
SYNC_INTERVALS_IDLE == 300000
SYNC_INTERVALS_RETRY_BASE == 5000
SYNC_INTERVALS_RETRY_MAX == 60000
MAX_RETRY_ATTEMPTS == 5
RateLimitCap == 10000
ErrorMultiplierCap == 5

\* One clock unit in milliseconds: the rate limiter's windows are 3 and 4 units.
TimeUnit == RateLimitCap \div 4

\* Saturation point of sinceAttempt: the longest window the rate limiter uses.
SinceCap == RateLimitCap \div TimeUnit

Min(a, b) == IF a <= b THEN a ELSE b

Units(ms) == Min((ms + TimeUnit - 1) \div TimeUnit, TimerCap)

Sessions == {"s1", "s2"}

\* What GET /info answers while the server runs session s.
ServerInfo(s) == [sessionUuid |-> s, apiVersion |-> 1]

Participant(id, name) == [uuid |-> id, name |-> name]

\* What GET /participants/all answers while the server runs session s.
AllParticipantsOf(s) ==
  IF s = "s1" THEN <<Participant("p1", "Ann"), Participant("p2", "Bob")>>
  ELSE <<Participant("p3", "Cy")>>

\* What GET /participants/updates/:since may answer while the server runs s.
ParticipantDeltas(s) ==
  IF s = "s1"
  THEN {<<>>, <<Participant("p1", "Anna")>>, <<Participant("p4", "Dee")>>}
  ELSE {<<>>, <<Participant("p3", "Cyd")>>}

\* What GET /messages/updates/:since may answer.
MessageDeltas ==
  {<<>>,
   <<ServerMessage("m1", <<ServerReaction("e1", <<"bob">>)>>)>>,
   <<ServerMessage("m2", <<>>)>>}

\* Errors a request fails with: error.response.status, or none (network).
Errors == {"409", "500", "network", "400"}

\* The jitter Math.random() * 1000 adds to a retry delay, in milliseconds.
Jitters == {0, 999}

\* serverInfo before fetchServerInfo has answered.
NoInfo == [sessionUuid |-> "", apiVersion |-> 0]

Closure(w) ==
  [sessionUuid |-> w.sessionUuid, lastUpdateTime |-> w.lastUpdateTime,
   retryCount |-> w.retryCount]

\* The state the hook and the stores it writes are in, as one record.
World ==
  [messages |-> messages, sessionUuid |-> sessionUuid,
   apiVersion |-> apiVersion, lastUpdateTime |-> lastUpdateTime,
   participants |-> participants, retryCount |-> retryCount,
   syncInProgress |-> syncInProgress, isMounted |-> isMounted,
   consecutiveErrors |-> consecutiveErrors, appState |-> appState,
   idle |-> idle, sinceAttempt |-> sinceAttempt, syncTimeout |-> syncTimeout,
   retryTimeouts |-> retryTimeouts, pc |-> pc, cyc |-> cyc]

Apply(w) ==
  /\ messages' = w.messages
  /\ sessionUuid' = w.sessionUuid
  /\ apiVersion' = w.apiVersion
  /\ lastUpdateTime' = w.lastUpdateTime
  /\ participants' = w.participants
  /\ retryCount' = w.retryCount
  /\ syncInProgress' = w.syncInProgress
  /\ isMounted' = w.isMounted
  /\ consecutiveErrors' = w.consecutiveErrors
  /\ appState' = w.appState
  /\ idle' = w.idle
  /\ sinceAttempt' = w.sinceAttempt
  /\ syncTimeout' = w.syncTimeout
  /\ retryTimeouts' = w.retryTimeouts
  /\ pc' = w.pc
  /\ cyc' = w.cyc

\* ---- session store and participant store ----------------------------------

setSession(w, info) ==
  [w EXCEPT !.sessionUuid = info.sessionUuid, !.apiVersion = info.apiVersion]

\* setLastUpdateTime storing no time: the cursor is unset.
setLastUpdateTimeUnset(w, time) == [w EXCEPT !.lastUpdateTime = 0]

setLastUpdateTime(w, time) == [w EXCEPT !.lastUpdateTime = time]

clearSession(w) ==
  [w EXCEPT !.sessionUuid = "", !.apiVersion = 0, !.lastUpdateTime = 0]

setParticipants(w, list) == [w EXCEPT !.participants = list]

clearParticipants(w) == [w EXCEPT !.participants = <<>>]

updateParticipant(ps, updated) ==
  IF \A i \in 1..Len(ps) : ps[i].uuid # updated.uuid
  THEN Append(ps, updated)
  ELSE [i \in 1..Len(ps) |->
          IF ps[i].uuid = updated.uuid THEN Spread(ps[i], updated) ELSE ps[i]]

\* list.forEach(updateMessage) and list.forEach(updateParticipant)
RECURSIVE UpdateMessages(_, _)
UpdateMessages(msgs, list) ==
  IF list = <<>> THEN msgs
  ELSE UpdateMessages(updateMessage(msgs, Head(list)), Tail(list))

RECURSIVE UpdateParticipants(_, _)
UpdateParticipants(ps, list) ==
  IF list = <<>> THEN ps
  ELSE UpdateParticipants(updateParticipant(ps, Head(list)), Tail(list))

\* ---- the hook's functions --------------------------------------------------

\* resetAppState without setMessages([]).
resetAppStateKeepingMessages(w) ==
  [clearSession(clearParticipants(w)) EXCEPT
     !.retryCount = 0, !.consecutiveErrors = 0]

resetAppState(w) ==
  [clearSession(clearParticipants(w)) EXCEPT
     !.messages = setMessages(<<>>), !.retryCount = 0, !.consecutiveErrors = 0]

RECURSIVE Pow2(_)
Pow2(n) == IF n = 0 THEN 1 ELSE 2 * Pow2(n - 1)

getRetryDelay(attempt, jitter) ==
  Min(SYNC_INTERVALS_RETRY_BASE * Pow2(attempt), SYNC_INTERVALS_RETRY_MAX)
    + jitter

\* handleSyncError: counts the error; its result is ShouldRetry.
handleSyncError(w) == [w EXCEPT !.consecutiveErrors = @ + 1]

ShouldRetry(error) == error # "400"

\* getCurrentSyncInterval multiplying by the error count without a cap.
getCurrentSyncIntervalUncapped(w) ==
  LET base == IF w.appState = "background" THEN SYNC_INTERVALS_BACKGROUND
              ELSE IF w.idle THEN SYNC_INTERVALS_IDLE
              ELSE SYNC_INTERVALS_ACTIVE
  IN IF w.consecutiveErrors > 0
     THEN base * w.consecutiveErrors
     ELSE base

getCurrentSyncInterval(w) ==
  LET base == IF w.appState = "background" THEN SYNC_INTERVALS_BACKGROUND
              ELSE IF w.idle THEN SYNC_INTERVALS_IDLE
              ELSE SYNC_INTERVALS_ACTIVE
  IN IF w.consecutiveErrors > 0
     THEN base * Min(w.consecutiveErrors, ErrorMultiplierCap)
     ELSE base

Timer(ms, c) == [left |-> Units(ms), delay |-> ms, closure |-> c]

\* The guard and the rate limiter of performSyncBase.
MinInterval(w) == Min(getCurrentSyncInterval(w) \div 4, RateLimitCap)

RateLimited(w) == w.sinceAttempt * TimeUnit < MinInterval(w)

\* performSyncBase of the render with closure c, up to `await fetchServerInfo()`.
performSyncBase(w, c) ==
  IF w.syncInProgress \/ ~w.isMounted THEN w
  ELSE IF RateLimited(w) THEN w
  ELSE [w EXCEPT !.sinceAttempt = 0, !.syncInProgress = TRUE, !.pc = "info",
                 !.cyc = <<[closure |-> c, info |-> NoInfo, sentAt |-> 0]>>]

\* The end of a cycle without the finally block: the flag stays set.
FinallyKeepingFlag(w) == [w EXCEPT !.pc = "idle", !.cyc = <<>>]

\* The finally block of performSyncBase.
Finally(w) == [w EXCEPT !.syncInProgress = FALSE, !.pc = "idle", !.cyc = <<>>]

scheduleNextSync(w, c) ==
  [w EXCEPT !.syncTimeout = <<Timer(getCurrentSyncInterval(w), c)>>]

\* retryTimeoutRef.current = setTimeout(...): the ref moves to the new timer,
\* a timer it referred to before stays pending.
SetRetryTimeout(w, ms, c) ==
  [w EXCEPT !.retryTimeouts =
     Append([i \in 1..Len(@) |-> [@[i] EXCEPT !.ref = FALSE]],
            [left |-> Units(ms), closure |-> c, ref |-> TRUE])]

RECURSIVE Unreferenced(_)
Unreferenced(ts) ==
  IF ts = <<>> THEN <<>>
  ELSE IF Head(ts).ref THEN Unreferenced(Tail(ts))
  ELSE <<Head(ts)>> \o Unreferenced(Tail(ts))

\* The main effect: the cleanup of the previous run, then the body.
MainEffectCleanup(w) ==
  [w EXCEPT !.syncTimeout = <<>>, !.retryTimeouts = Unreferenced(@)]

MainEffect(w) ==
  IF w.sessionUuid = ""
  THEN performSyncBase(MainEffectCleanup(w), Closure(w))
  ELSE scheduleNextSync(MainEffectCleanup(w), Closure(w))

\* The render after a step that led from old to w, with its effects.
Render(old, w) ==
  IF w.isMounted /\ Closure(w) # Closure(old) THEN MainEffect(w) ELSE w

\* The interval-based version of the hook (lines 419-627) is not in use.
InitIntervalUnused ==
  /\ intervalInProgress = FALSE
  /\ intervalRetryCount = 0
  /\ syncInterval = <<>>
  /\ intervalRetryTimers = <<>>
  /\ cycles = <<>>
  /\ intervalMounted = FALSE

\* ---- the state after mount -------------------------------------------------

SetWorld(w) ==
  /\ messages = w.messages
  /\ sessionUuid = w.sessionUuid
  /\ apiVersion = w.apiVersion
  /\ lastUpdateTime = w.lastUpdateTime
  /\ participants = w.participants
  /\ retryCount = w.retryCount
  /\ syncInProgress = w.syncInProgress
  /\ isMounted = w.isMounted
  /\ consecutiveErrors = w.consecutiveErrors
  /\ appState = w.appState
  /\ idle = w.idle
  /\ sinceAttempt = w.sinceAttempt
  /\ syncTimeout = w.syncTimeout
  /\ retryTimeouts = w.retryTimeouts
  /\ pc = w.pc
  /\ cyc = w.cyc

\* The hook's first render over stores holding (sess, api, lut, msgs, ps),
\* followed by the first run of the main effect.
Mounted(sess, api, lut, msgs, ps) ==
  MainEffect(
    [messages |-> msgs, sessionUuid |-> sess, apiVersion |-> api,
     lastUpdateTime |-> lut, participants |-> ps, retryCount |-> 0,
     syncInProgress |-> FALSE, isMounted |-> TRUE, consecutiveErrors |-> 0,
     appState |-> "active", idle |-> FALSE, sinceAttempt |-> SinceCap,
     syncTimeout |-> <<>>, retryTimeouts |-> <<>>, pc |-> "idle",
     cyc |-> <<>>])

\* A first launch: nothing persisted.
MountedFresh == Mounted("", 0, 0, <<>>, <<>>)

\* The sync variables as the other parts of the model hold them.
InitSyncFresh ==
  /\ sessionUuid = MountedFresh.sessionUuid
  /\ apiVersion = MountedFresh.apiVersion
  /\ lastUpdateTime = MountedFresh.lastUpdateTime
  /\ participants = MountedFresh.participants
  /\ retryCount = MountedFresh.retryCount
  /\ syncInProgress = MountedFresh.syncInProgress
  /\ isMounted = MountedFresh.isMounted
  /\ consecutiveErrors = MountedFresh.consecutiveErrors
  /\ appState = MountedFresh.appState
  /\ idle = MountedFresh.idle
  /\ sinceAttempt = MountedFresh.sinceAttempt
  /\ syncTimeout = MountedFresh.syncTimeout
  /\ retryTimeouts = MountedFresh.retryTimeouts
  /\ pc = MountedFresh.pc
  /\ cyc = MountedFresh.cyc
  /\ serverSession = "s1"
  /\ InitIntervalUnused

\* The clock reading at launch (Date.now() is positive).
StartClock == 1

\* A launch over what the stores persisted: nothing; or a session the hook
\* adopted (cursor unset), with the messages a refresh loaded and possibly
\* the participants a reset loaded; or a session with a cursor, as the
\* interval-based version of the hook (lines 419-627) leaves it.
InitSync ==
  /\ now = StartClock
  /\ optimisticMessages = <<>>
  /\ returned = "undefined"
  /\ sending = FALSE
  /\ sendTemp = Null
  /\ sent = 0
  /\ reacting = <<>>
  /\ serverSession = "s1"
  /\ InitIntervalUnused
  /\ \/ SetWorld(MountedFresh)
     \/ SetWorld(Mounted("s1", 1, 0, <<>>, <<>>))
     \/ SetWorld(Mounted("s1", 1, StartClock, <<ServerMessage("m1", <<>>)>>,
                         AllParticipantsOf("s1")))

\* ---- steps of the hook -----------------------------------------------------

TimerDue ==
  \/ syncTimeout # <<>> /\ syncTimeout[1].left = 0
  \/ \E i \in 1..Len(retryTimeouts) : retryTimeouts[i].left = 0

Elapse(t) == [t EXCEPT !.left = IF @ > 0 THEN @ - 1 ELSE 0]

\* One clock unit passes; a due timer fires first.
AdvanceTime ==
  /\ now < MaxClock
  /\ ~TimerDue
  /\ now' = now + 1
  /\ sinceAttempt' = Min(sinceAttempt + 1, SinceCap)
  /\ syncTimeout' = [i \in 1..Len(syncTimeout) |-> Elapse(syncTimeout[i])]
  /\ retryTimeouts' = [i \in 1..Len(retryTimeouts) |-> Elapse(retryTimeouts[i])]
  /\ UNCHANGED <<messages, sessionVars, participants, serverSession,
                 retryCount, syncInProgress, isMounted, consecutiveErrors,
                 appState, idle, pc, cyc, notSync>>

\* The user has been inactive for ACTIVITY_TIMEOUT / touches the screen
\* (updateActivity).
ActivityChange ==
  /\ isMounted
  /\ idle' = ~idle
  /\ UNCHANGED <<messages, now, sessionVars, participants, serverSession,
                 retryCount, syncInProgress, isMounted, consecutiveErrors,
                 appState, sinceAttempt, syncTimeout, retryTimeouts, pc, cyc,
                 notSync>>

\* The server starts a new session.
ServerRotate ==
  /\ serverSession = "s1"
  /\ serverSession' = "s2"
  /\ UNCHANGED <<messages, now, sessionVars, participants, hookVars, notSync>>

Frame == UNCHANGED <<now, serverSession, notSync>>

\* The callback of scheduleNextSync's timer.
SyncTimerFire ==
  /\ syncTimeout # <<>>
  /\ syncTimeout[1].left = 0
  /\ LET c == syncTimeout[1].closure
         w == [World EXCEPT !.syncTimeout = <<>>]
     IN Apply(IF w.isMounted
              THEN scheduleNextSync(performSyncBase(w, c), c)
              ELSE w)
  /\ Frame

\* The callback of a retry timer.
RetryTimerFire ==
  \E i \in 1..Len(retryTimeouts) :
    /\ retryTimeouts[i].left = 0
    /\ retryCount < MaxRetryCount
    /\ LET c == retryTimeouts[i].closure
           w == [World EXCEPT !.retryTimeouts =
                   SubSeq(@, 1, i - 1) \o SubSeq(@, i + 1, Len(@))]
       IN Apply(IF w.isMounted
                THEN Render(w, performSyncBase(
                                 [w EXCEPT !.retryCount = @ + 1], c))
                ELSE w)
    /\ Frame

\* The app states the platform reports to the listener.
AppStates == {"active", "background"}

\* handleAppStateChange(nextAppState)
AppStateChange ==
  \E nextAppState \in AppStates \ {appState} :
    /\ isMounted
    /\ LET w == World
           c == Closure(w)
           w1 == IF w.appState \in {"inactive", "background"}
                    /\ nextAppState = "active"
                 THEN scheduleNextSync(performSyncBase(w, c), c)
                 ELSE IF nextAppState = "background"
                 THEN scheduleNextSync(w, c)
                 ELSE w
       IN Apply([w1 EXCEPT !.appState = nextAppState])
    /\ Frame

\* manualSync()
ManualSync ==
  /\ isMounted
  /\ LET w == World
     IN Apply(Render(w, performSyncBase(
                [w EXCEPT !.consecutiveErrors = 0, !.retryCount = 0],
                Closure(w))))
  /\ Frame

\* The component unmounts: the cleanups of the effects run.
Unmount ==
  /\ isMounted
  /\ Apply(MainEffectCleanup([World EXCEPT !.isMounted = FALSE]))
  /\ Frame

\* ---- the poll cycle after `await fetchServerInfo()` -------------------------

\* handleSessionChange(serverInfo) up to `await fetchAllParticipants()`.
handleSessionChange(w, info) ==
  [setSession(resetAppState(w), info) EXCEPT
     !.pc = "participants", !.cyc = <<[@[1] EXCEPT !.info = info]>>]

\* fetchServerInfo() answered with serverInfo.
InfoResolvedWith(info) ==
  /\ pc = "info"
  /\ info = ServerInfo(serverSession)
  /\ LET w == World
         c == cyc[1].closure
     IN Apply(IF ~w.isMounted THEN Finally(w)
              ELSE IF c.sessionUuid # "" /\ c.sessionUuid # info.sessionUuid
              THEN Render(w, handleSessionChange(w, info))
              ELSE IF c.sessionUuid = ""
              THEN Render(w, Finally(setSession(w, info)))
              ELSE IF c.lastUpdateTime # 0
              THEN [w EXCEPT !.pc = "batch",
                             !.cyc = <<[@[1] EXCEPT !.sentAt = now]>>]
              ELSE Finally(w))
  /\ Frame

InfoResolved == \E s \in Sessions : InfoResolvedWith(ServerInfo(s))

\* The catch block of performSyncBase for `error`, then finally.
CatchSyncError(w, error, jitter) ==
  LET c == w.cyc[1].closure
      w1 == handleSyncError(w)
  IN IF ~w.isMounted THEN Finally(w)
     ELSE IF ShouldRetry(error) /\ c.retryCount < MAX_RETRY_ATTEMPTS
     THEN Finally(SetRetryTimeout(w1, getRetryDelay(c.retryCount, jitter), c))
     ELSE Finally(w1)

\* fetchServerInfo() rejected.
InfoRejected ==
  \E error \in Errors, jitter \in Jitters :
    /\ pc = "info"
    /\ consecutiveErrors < MaxErrors
    /\ Len(retryTimeouts) < MaxRetryTimers
    /\ Apply(CatchSyncError(World, error, jitter))
    /\ Frame

\* fetchAllParticipants() answered: the rest of handleSessionChange, finally.
ParticipantsResolvedWith(allParticipants) ==
  /\ pc = "participants"
  /\ allParticipants = AllParticipantsOf(serverSession)
  /\ LET w == World
     IN Apply(Finally(IF w.isMounted
                      THEN setParticipants(w, allParticipants)
                      ELSE w))
  /\ Frame

ParticipantsResolved ==
  \E s \in Sessions : ParticipantsResolvedWith(AllParticipantsOf(s))

\* fetchAllParticipants() rejected: caught in handleSessionChange.
ParticipantsRejected ==
  /\ pc = "participants"
  /\ consecutiveErrors < MaxErrors
  /\ Apply(Finally(handleSyncError(World)))
  /\ Frame

\* What fetchUpdatedMessages resolves with: the answer, or [] when the
\* request failed (the error is caught there).
fetchUpdatedMessages(transportOk, data) == IF transportOk THEN data ELSE <<>>

\* performBatchUpdates after Promise.allSettled; messagesResult is always
\* fulfilled, participantsResult is fulfilled iff its request succeeded.
BatchUpdates(w, messagesValue, participantsOk, participantsValue, t) ==
  LET w1 == [w EXCEPT !.messages = UpdateMessages(@, messagesValue)]
      w2 == IF participantsOk
            THEN [w1 EXCEPT !.participants =
                              UpdateParticipants(@, participantsValue)]
            ELSE handleSyncError(w1)
  IN [setLastUpdateTime(w2, t) EXCEPT
        !.consecutiveErrors = 0, !.retryCount = 0]

\* Both delta requests have settled.
BatchSettledWith(messagesOk, mdelta, participantsOk, pdelta) ==
  /\ pc = "batch"
  /\ LET w == World
     IN Apply(IF ~w.isMounted THEN Finally(w)
              ELSE Render(w, Finally(BatchUpdates(w,
                     fetchUpdatedMessages(messagesOk, mdelta),
                     participantsOk, pdelta, now))))
  /\ Frame

BatchSettled ==
  \E messagesOk \in BOOLEAN, participantsOk \in BOOLEAN,
     mdelta \in MessageDeltas, pdelta \in ParticipantDeltas(serverSession) :
    /\ ~messagesOk => mdelta = <<>>
    /\ ~participantsOk => pdelta = <<>>
    /\ BatchSettledWith(messagesOk, mdelta, participantsOk, pdelta)

NextSync ==
  \/ AdvanceTime
  \/ ActivityChange
  \/ ServerRotate
  \/ SyncTimerFire
  \/ RetryTimerFire
  \/ AppStateChange
  \/ ManualSync
  \/ Unmount
  \/ InfoResolved
  \/ InfoRejected
  \/ ParticipantsResolved
  \/ ParticipantsRejected
  \/ BatchSettled

InitSyncSpec ==
  InitQueue /\ answer = NoAnswer /\ InitSync /\ InitUtilUnused

SpecSync == InitSyncSpec /\ [][NextSync]_vars

(***************************************************************************)
(* useChatSync, interval-based (src/src/hooks/useChatSync.js:419-627).     *)
(* Its refs are variables of their own; it reads and writes the same       *)
(* stores.  A closure here is what one render's syncData captured:         *)
(* sessionUuid and lastUpdateTime.  The effect depends on syncData, so it  *)
(* re-runs when a render changes one of the two.  The interval timer and   *)
(* the retry timers fire in any order: the phase of the interval relative  *)
(* to a failure is arbitrary.                                              *)
(***************************************************************************)
MAX_RETRY_ATTEMPTS_INTERVAL == 3

ClosureInterval(v) ==
  [sessionUuid |-> v.sessionUuid, lastUpdateTime |-> v.lastUpdateTime]

WorldInterval ==
  [messages |-> messages, sessionUuid |-> sessionUuid,
   apiVersion |-> apiVersion, lastUpdateTime |-> lastUpdateTime,
   participants |-> participants, intervalInProgress |-> intervalInProgress,
   intervalRetryCount |-> intervalRetryCount, syncInterval |-> syncInterval,
   intervalRetryTimers |-> intervalRetryTimers, cycles |-> cycles,
   intervalMounted |-> intervalMounted]

ApplyInterval(v) ==
  /\ messages' = v.messages
  /\ sessionUuid' = v.sessionUuid
  /\ apiVersion' = v.apiVersion
  /\ lastUpdateTime' = v.lastUpdateTime
  /\ participants' = v.participants
  /\ intervalInProgress' = v.intervalInProgress
  /\ intervalRetryCount' = v.intervalRetryCount
  /\ syncInterval' = v.syncInterval
  /\ intervalRetryTimers' = v.intervalRetryTimers
  /\ cycles' = v.cycles
  /\ intervalMounted' = v.intervalMounted

\* syncData of the render with closure c, up to `await fetchServerInfo()`.
syncData(v, c) ==
  IF v.intervalInProgress THEN v
  ELSE [v EXCEPT !.intervalInProgress = TRUE,
                 !.cycles = Append(@, [pc |-> "info", closure |-> c])]

startSyncInterval(v, c) == [v EXCEPT !.syncInterval = <<c>>]

stopSyncInterval(v) == [v EXCEPT !.syncInterval = <<>>]

\* The cleanup of the effect, and its body.
EffectCleanupInterval(v) ==
  [stopSyncInterval(v) EXCEPT
     !.intervalInProgress = FALSE, !.intervalRetryCount = 0]

EffectInterval(v) ==
  startSyncInterval(syncData(v, ClosureInterval(v)), ClosureInterval(v))

\* The render after a step that led from old to v, with its effect.
RenderInterval(old, v) ==
  IF v.intervalMounted /\ ClosureInterval(v) # ClosureInterval(old)
  THEN EffectInterval(EffectCleanupInterval(v))
  ELSE v

resetAppStateInterval(v) ==
  [v EXCEPT !.messages = setMessages(<<>>), !.participants = <<>>,
            !.sessionUuid = "", !.apiVersion = 0, !.lastUpdateTime = 0]

\* The cycle at position i leaves syncData: its finally block runs.
FinallyInterval(v, i) ==
  [v EXCEPT !.intervalInProgress = FALSE,
            !.cycles = SubSeq(@, 1, i - 1) \o SubSeq(@, i + 1, Len(@))]

\* The first render over stores holding (sess, api, lut, msgs, ps) and the
\* first run of the effect.
MountedInterval(sess, api, lut, msgs, ps) ==
  EffectInterval(
    [messages |-> msgs, sessionUuid |-> sess, apiVersion |-> api,
     lastUpdateTime |-> lut, participants |-> ps,
     intervalInProgress |-> FALSE, intervalRetryCount |-> 0,
     syncInterval |-> <<>>, intervalRetryTimers |-> <<>>, cycles |-> <<>>,
     intervalMounted |-> TRUE])

SetWorldInterval(v) ==
  /\ messages = v.messages
  /\ sessionUuid = v.sessionUuid
  /\ apiVersion = v.apiVersion
  /\ lastUpdateTime = v.lastUpdateTime
  /\ participants = v.participants
  /\ intervalInProgress = v.intervalInProgress
  /\ intervalRetryCount = v.intervalRetryCount
  /\ syncInterval = v.syncInterval
  /\ intervalRetryTimers = v.intervalRetryTimers
  /\ cycles = v.cycles
  /\ intervalMounted = v.intervalMounted

\* The optimized hook is not in use.
HookUnused ==
  /\ retryCount = 0
  /\ syncInProgress = FALSE
  /\ isMounted = FALSE
  /\ consecutiveErrors = 0
  /\ appState = "active"
  /\ idle = FALSE
  /\ sinceAttempt = SinceCap
  /\ syncTimeout = <<>>
  /\ retryTimeouts = <<>>
  /\ pc = "idle"
  /\ cyc = <<>>

\* A launch of the interval-based hook: over empty stores, or over a
\* persisted session with its cursor, messages and participants.
InitInterval ==
  /\ now = StartClock
  /\ optimisticMessages = <<>>
  /\ returned = "undefined"
  /\ sending = FALSE
  /\ sendTemp = Null
  /\ sent = 0
  /\ reacting = <<>>
  /\ serverSession = "s1"
  /\ HookUnused
  /\ \/ SetWorldInterval(MountedInterval("", 0, 0, <<>>, <<>>))
     \/ SetWorldInterval(MountedInterval("s1", 1, StartClock,
                           <<ServerMessage("m1", <<>>)>>,
                           AllParticipantsOf("s1")))

FrameInterval == UNCHANGED <<now, serverSession, notInterval>>

\* Date.now() advances.
TickInterval ==
  /\ now < MaxIntervalNow
  /\ now' = now + 1
  /\ UNCHANGED <<messages, sessionVars, participants, serverSession,
                 intervalVars, notInterval>>

ServerRotateInterval ==
  /\ serverSession = "s1"
  /\ serverSession' = "s2"
  /\ UNCHANGED <<messages, now, sessionVars, participants, intervalVars,
                 notInterval>>

\* The setInterval timer fires: syncData().
IntervalFire ==
  /\ syncInterval # <<>>
  /\ Len(cycles) < MaxCycles
  /\ ApplyInterval(syncData(WorldInterval, syncInterval[1]))
  /\ FrameInterval

\* A retry timer fires: syncInProgress.current = false; syncData().
RetryFireInterval ==
  \E i \in 1..Len(intervalRetryTimers) :
    /\ Len(cycles) < MaxCycles
    /\ LET v == [WorldInterval EXCEPT
                   !.intervalInProgress = FALSE,
                   !.intervalRetryTimers =
                      SubSeq(@, 1, i - 1) \o SubSeq(@, i + 1, Len(@))]
       IN ApplyInterval(syncData(v, intervalRetryTimers[i]))
    /\ FrameInterval

UnmountInterval ==
  /\ intervalMounted
  /\ ApplyInterval(EffectCleanupInterval(
                     [WorldInterval EXCEPT !.intervalMounted = FALSE]))
  /\ FrameInterval

\* handleSessionChange up to `await fetchAllParticipants()`, for cycle i.
handleSessionChangeInterval(v, i, info) ==
  [setSession(resetAppStateInterval(v), info) EXCEPT
     !.cycles[i].pc = "participants"]

\* Cycle i: fetchServerInfo() answered.
InfoResolvedInterval ==
  \E i \in 1..Len(cycles) :
    /\ cycles[i].pc = "info"
    /\ Len(cycles) < MaxCycles \/ ~intervalMounted
    /\ LET v == WorldInterval
           c == cycles[i].closure
           info == ServerInfo(serverSession)
       IN ApplyInterval(
            IF info.sessionUuid # c.sessionUuid
            THEN RenderInterval(v, handleSessionChangeInterval(v, i, info))
            ELSE IF c.sessionUuid # "" /\ c.lastUpdateTime > 0
            THEN [v EXCEPT !.cycles[i].pc = "batch"]
            ELSE IF c.sessionUuid # ""
            THEN RenderInterval(v, FinallyInterval(
                                     setLastUpdateTime(v, now), i))
            ELSE FinallyInterval(v, i))
    /\ FrameInterval

\* Cycle i: fetchServerInfo() rejected.
InfoRejectedInterval ==
  \E i \in 1..Len(cycles) :
    /\ cycles[i].pc = "info"
    /\ Len(intervalRetryTimers) < MaxRetryTimers
    /\ LET v == [WorldInterval EXCEPT !.intervalRetryCount = @ + 1]
       IN ApplyInterval(
            IF v.intervalRetryCount < MAX_RETRY_ATTEMPTS_INTERVAL
            THEN FinallyInterval(
                   [v EXCEPT !.intervalRetryTimers =
                               Append(@, cycles[i].closure)], i)
            ELSE FinallyInterval([v EXCEPT !.intervalRetryCount = 0], i))
    /\ FrameInterval

\* Cycle i: fetchAllParticipants() answered or failed (the failure is
\* caught in handleSessionChange).
ParticipantsSettledInterval ==
  \E i \in 1..Len(cycles), ok \in BOOLEAN :
    /\ cycles[i].pc = "participants"
    /\ LET v == WorldInterval
       IN ApplyInterval(FinallyInterval(
            IF ok THEN setParticipants(v, AllParticipantsOf(serverSession))
            ELSE v, i))
    /\ FrameInterval

\* performBatchUpdates after Promise.all: both fetches resolve with a list.
performBatchUpdates(v, updatedMessages, updatedParticipants, t) ==
  [setLastUpdateTime(
     [v EXCEPT !.messages = UpdateMessages(@, updatedMessages),
               !.participants = UpdateParticipants(@, updatedParticipants)], t)
   EXCEPT !.intervalRetryCount = 0]

\* Cycle i: both delta requests have settled.
BatchSettledInterval ==
  \E i \in 1..Len(cycles), mdelta \in MessageDeltas,
     pdelta \in ParticipantDeltas(serverSession) :
    /\ cycles[i].pc = "batch"
    /\ Len(cycles) < MaxCycles \/ ~intervalMounted
    /\ LET v == WorldInterval
       IN ApplyInterval(RenderInterval(v, FinallyInterval(
            performBatchUpdates(v, mdelta, pdelta, now), i)))
    /\ FrameInterval

NextInterval ==
  \/ TickInterval
  \/ ServerRotateInterval
  \/ IntervalFire
  \/ RetryFireInterval
  \/ UnmountInterval
  \/ InfoResolvedInterval
  \/ InfoRejectedInterval
  \/ ParticipantsSettledInterval
  \/ BatchSettledInterval

InitIntervalSpec ==
  InitQueue /\ answer = NoAnswer /\ InitInterval /\ InitUtilUnused

SpecInterval == InitIntervalSpec /\ [][NextInterval]_vars

InitQueueSpec ==
  InitQueue /\ answer = NoAnswer /\ InitStore /\ InitSyncFresh /\ InitUtilUnused

SpecQueue == InitQueueSpec /\ [][NextQueue]_vars

\* C1: the queue runs at most one request at a time: under add() calls and
\* request outcomes alone (success, other failure, 409 with its delayed
\* retry; clear() never called) no two requests passed to add() are ever
\* executing concurrently.
C1_AtMostOneInFlight == ~cleared => Cardinality(inflight) <= 1

InitStoreSpec ==
  /\ InitQueue /\ answer = NoAnswer /\ InitStoreRehydrated /\ InitSyncFresh
  /\ InitUtilUnused

SpecStore == InitStoreSpec /\ [][NextStore]_vars

InitLedgerSpec ==
  /\ InitQueue /\ answer = NoAnswer /\ InitStoreRehydrated /\ InitSyncFresh
  /\ InitUtilUnused

SpecLedger == InitLedgerSpec /\ [][NextLedger]_vars

\* Every reaction of every message counts exactly its reactors, none twice.
ReactionWellFormed(r) ==
  /\ r.count = Len(r.participants)
  /\ \A i, j \in 1..Len(r.participants) :
       r.participants[i] = r.participants[j] => i = j

\* C3: in every reachable state every reaction of every message has count
\* equal to the number of its reactors and no reactor appears twice for the
\* same emoji.
C3_ReactionCountInvariant ==
  \A i \in 1..Len(messages) :
    \A j \in 1..Len(messages[i].reactions) :
      ReactionWellFormed(messages[i].reactions[j])


\* The reaction list of message id in msgs (Null when the message is absent).
ReactionsOf(msgs, id) ==
  IF FindIndex(msgs, id) = 0 THEN Null ELSE msgs[FindIndex(msgs, id)].reactions

\* TRUE when actor u is among the reactors of emoji e on message id.
AlreadyReacted(msgs, id, e, u) ==
  /\ FindIndex(msgs, id) # 0
  /\ FindReaction(msgs[FindIndex(msgs, id)].reactions, e) # 0
  /\ u \in Range(msgs[FindIndex(msgs, id)].reactions[
                   FindReaction(msgs[FindIndex(msgs, id)].reactions, e)].participants)

\* C5: a call of addReactionOptimistic(messageId, emoji, 'you') whose target
\* message does not exist locally, or whose actor is already among the
\* emoji's reactors, returns null and leaves the messages and the ledger
\* unchanged.  Stated for the store of src/src/state/messageStore.js, the one
\* the chat screen imports.
C5_AddRejectsMissingOrDuplicate ==
  [][\A id \in MsgIds, e \in Emojis :
       (/\ AddReactionOptimisticBasicCall(id, e)
        /\ (FindIndex(messages, id) = 0 \/ AlreadyReacted(messages, id, e, "you")))
       => (/\ returned' = Null
           /\ UNCHANGED <<messages, optimisticMessages>>)]_vars

\* C6: in every state, for every message and emoji for which
\* addReactionOptimistic returns a token, revertReaction with that token
\* applied right after it gives back a reaction list structurally equal to the
\* one before the call.
C6_RevertRestoresReactions ==
  \A id \in MsgIds, e \in Emojis, u \in Actors :
    LET a == addReactionOptimistic(messages, optimisticMessages, id, e, u, now)
        r == revertReaction(a.messages, a.optimisticMessages, a.ret)
    IN a.ret # Null => ReactionsOf(r.messages, id) = ReactionsOf(messages, id)

\* C10: when the transport call of a send succeeds, the entry created under
\* the temporary id has status 'sent' and carries the server-assigned id: no
\* entry with the temporary id remains, exactly one entry has the server id,
\* no entry of this send is left in status 'sending', and the list keeps its
\* length.
C10_SendConfirmed ==
  [][\A id \in ServerIds :
       SendResolvedWith(id)
       => (/\ \A i \in 1..Len(messages') : messages'[i].uuid # sendTemp.uuid
           /\ Cardinality({i \in 1..Len(messages') :
                             /\ messages'[i].uuid = id
                             /\ messages'[i].status = "sent"}) = 1
           /\ Len(messages') = Len(messages))]_vars


\* The ids of the records of a list.
IdsOf(list) == {list[i].uuid : i \in 1..Len(list)}

\* TRUE when list holds exactly one record with the id of d, and that record
\* carries every field of d.
HoldsOnce(list, d) ==
  /\ Cardinality({i \in 1..Len(list) : list[i].uuid = d.uuid}) = 1
  /\ \A i \in 1..Len(list) :
       list[i].uuid = d.uuid =>
         /\ DOMAIN d \subseteq DOMAIN list[i]
         /\ \A f \in DOMAIN d : list[i][f] = d[f]

\* The poll cycle that ran handleSessionChange ends.
ResetCycleEnds == pc = "participants" /\ pc' = "idle"

C7_CursorKeptWhenBothFail ==
  [][(BatchSettledWith(FALSE, <<>>, FALSE, <<>>) /\ isMounted)
     => lastUpdateTime' = lastUpdateTime]_vars

\* C8: after a poll cycle has applied its deltas, every record of the message
\* delta and every record of the participant delta is held exactly once by
\* the local state, with the delta's fields: inserted when its id was
\* unknown, merged when it was known.
C8_DeltaMergeIsUpsert ==
  [][\A mdelta \in MessageDeltas, pdelta \in ParticipantDeltas(serverSession) :
       (BatchSettledWith(TRUE, mdelta, TRUE, pdelta) /\ isMounted)
       => /\ \A i \in 1..Len(mdelta) : HoldsOnce(messages', mdelta[i])
          /\ \A i \in 1..Len(pdelta) : HoldsOnce(participants', pdelta[i])]_vars

\* C9: a poll cycle that finds the adopted session unchanged on the server
\* goes on to the message and participant delta fetches (the cursor was
\* seeded when the session was adopted).
C9_DeltaFetchAfterAdoption ==
  [][\A s \in Sessions :
       (/\ InfoResolvedWith(ServerInfo(s))
        /\ isMounted
        /\ cyc[1].closure.sessionUuid = s)
       => pc' = "batch"]_vars


\* C2: at most one poll cycle executes at a time; stated for the
\* interval-based syncData with its retry timers and its effect.
C2_AtMostOneCycle == Len(cycles) <= 1


\* The position of the n-th occurrence of x in the sequence s (0 when there
\* are fewer than n).
RECURSIVE NthIndex(_, _, _, _)
NthIndex(s, x, n, from) ==
  IF from > Len(s) THEN 0
  ELSE IF s[from] = x
       THEN IF n = 1 THEN from ELSE NthIndex(s, x, n - 1, from + 1)
       ELSE NthIndex(s, x, n, from + 1)

\* add(a) was called before add(b).
AddedBefore(a, b) ==
  /\ NthIndex(added, a, 1, 1) # 0
  /\ NthIndex(added, b, 1, 1) # 0
  /\ NthIndex(added, a, 1, 1) < NthIndex(added, b, 1, 1)

\* The first attempt of a ended with a 409.
Conflicted(a) == a \in Range(retryTimers) \/ calls[a] >= 2

\* C11: an operation whose attempt failed with 409 is retried before any
\* operation enqueued after it is started: when b, added after a, has
\* started, the second attempt of a has started before it (clear() never
\* called).
C11_RetryBeforeLaterOperations ==
  ~cleared =>
    \A a \in ReqIds, b \in ReqIds :
      (AddedBefore(a, b) /\ Conflicted(a) /\ NthIndex(started, b, 1, 1) # 0)
      => /\ NthIndex(started, a, 2, 1) # 0
         /\ NthIndex(started, a, 2, 1) < NthIndex(started, b, 1, 1)


\* C12: a 409 does not reject the promise add() returned: the request waits
\* for its retry timer with the promise pending, the timer invokes the same
\* request again, and the promise settles only when an attempt resolves or
\* fails otherwise, after which the request is never invoked again; any other
\* error rejects the promise, and the queue goes on: whenever operations are
\* queued and none is being started, a timer that will call process() is
\* pending.
C12_ErrorClassification ==
  /\ [](\A r \in ReqIds :
          /\ r \in Range(retryTimers) => promise[r] = "pending"
          /\ r \in inflight => promise[r] = "pending")
  /\ []((queue # <<>> /\ ~processing)
          => (kickTimers # <<>> \/ retryTimers # <<>>))
  /\ [][/\ \A r \in ReqIds :
             requestConflict(r) =>
               /\ promise'[r] = "pending"
               /\ r \in Range(retryTimers')
        /\ \A r \in ReqIds :
             requestRejected(r) =>
               /\ promise'[r] = "rejected"
               /\ r \notin Range(retryTimers') \cup inflight'
        /\ retryFire =>
             /\ Head(retryTimers) \in inflight'
             /\ calls'[Head(retryTimers)] = calls[Head(retryTimers)] + 1
        /\ \A r \in ReqIds :
             /\ promise[r] \in {"resolved", "rejected"}
                  => /\ promise'[r] = promise[r]
                     /\ calls'[r] = calls[r]
             /\ (promise[r] = "pending" /\ promise'[r] = "rejected")
                  => (r \in inflight /\ r \notin Range(retryTimers')
                      /\ kickTimers' # <<>>)]_vars

\* One 409 followed by success: the promise is resolved after exactly two
\* invocations.
C12_Witness == \E r \in ReqIds : promise[r] = "resolved" /\ calls[r] = 2


\* C13: clear() drops every operation that has not started: an operation
\* that was queued, or was waiting out its 409 retry delay, when clear() was
\* called is never invoked after that clear().
C13_ClearDropsPending ==
  [][\A r \in dropped : calls'[r] = calls[r]]_vars


InitWrappedSpec ==
  /\ InitQueue /\ answer \in [ReqIds -> Statuses] /\ InitStore /\ InitSyncFresh
  /\ InitUtilUnused

\* Operations wrapped by withRetry; every step of the queue that can be
\* taken is taken in the end, whereas nobody has to call add().
SpecWrapped ==
  /\ InitWrappedSpec
  /\ [][NextWrapped]_vars
  /\ WF_vars(\E r \in ReqIds : requestSettled(r))
  /\ WF_vars(kickFire)
  /\ WF_vars(retryFireUncounted)

\* C14: an operation wrapped by withRetry whose every attempt answers 409 is
\* re-executed by the queue only finitely many times: once added, its promise
\* is rejected in the end.
C14_ConflictRetryEnds ==
  \A r \in ReqIds :
    [](answer[r] = 409 /\ promise[r] = "pending"
         => <>(promise[r] = "rejected"))


\* No attempt has failed so far: no promise is rejected and no operation has
\* been answered 409.
NoFailure ==
  \A r \in ReqIds :
    /\ promise[r] # "rejected"
    /\ r \notin Range(retryTimers)
    /\ calls[r] <= 1

InitReactSpec ==
  /\ InitQueue /\ answer = NoAnswer /\ InitStoreRehydrated /\ InitSyncFresh
  /\ InitUtilUnused

SpecReact == InitReactSpec /\ [][NextReact]_vars

\* The message with that uuid carries a reaction of that emoji by 'you'.
Carries(msgs, id, e) ==
  \E i \in 1..Len(msgs) :
    /\ msgs[i].uuid = id
    /\ \E j \in 1..Len(msgs[i].reactions) :
         /\ msgs[i].reactions[j].emoji = e
         /\ "you" \in Range(msgs[i].reactions[j].participants)

\* C16: when the request of an optimistic reaction fails, then once the
\* failure handler has run the reacted message no longer carries the
\* reaction of 'you' that handleReact added, whatever stale sweeps, sync
\* merges and refreshes ran while the request was in flight.
C16_FailedReactionUndone ==
  [][\A i \in 1..MaxReacting :
       ReactRejected(i)
         => ~Carries(messages', reacting[i][1], reacting[i][2])]_vars


\* The reactions of rs with another emoji than e, in their order.
RECURSIVE OtherReactions(_, _)
OtherReactions(rs, e) ==
  IF rs = <<>> THEN <<>>
  ELSE (IF Head(rs).emoji = e THEN <<>> ELSE <<Head(rs)>>)
         \o OtherReactions(Tail(rs), e)

\* What a revert of the ledger entry o may make of a message's reactions:
\* the other reactions as they were; of the recorded emoji, the recorded
\* actor gone, every other reactor still there, the count one less, and the
\* reaction dropped only when that count is zero.
InverseOfDelta(old, new, o) ==
  /\ OtherReactions(new, o.emoji) = OtherReactions(old, o.emoji)
  /\ \A j \in 1..Len(old) :
       old[j].emoji = o.emoji =>
         /\ \A u \in Range(old[j].participants) \ {o.userId} :
              \E n \in 1..Len(new) :
                new[n].emoji = o.emoji /\ u \in Range(new[n].participants)
         /\ old[j].count > 1 =>
              \E n \in 1..Len(new) :
                new[n].emoji = o.emoji /\ new[n].count = old[j].count - 1
  /\ \A n \in 1..Len(new) :
       new[n].emoji = o.emoji => o.userId \notin Range(new[n].participants)

\* C17: revertReaction(token) applies the inverse of the recorded delta only:
\* on the recorded message it removes the recorded actor from the recorded
\* emoji and decrements that count by one, dropping the reaction at zero; every
\* other reaction, every other reactor (also one a sync merge brought in
\* since the reaction was added) and every other message stay as they are.
C17_RevertAppliesInverseOnly ==
  \A key \in DOMAIN optimisticMessages :
    LET o == optimisticMessages[key]
        res == revertReaction(messages, optimisticMessages, key)
    IN /\ Len(res.messages) = Len(messages)
       /\ \A i \in 1..Len(messages) :
            IF messages[i].uuid = o.messageId
            THEN InverseOfDelta(messages[i].reactions,
                                res.messages[i].reactions, o)
            ELSE res.messages[i] = messages[i]


\* Every token addReactionOptimistic can return.
Keys ==
  {OptimisticKey(id, e, u, t) :
     id \in MsgIds, e \in Emojis, u \in Actors, t \in 0..MaxNow}

\* With the token k out of the ledger opt, neither confirmReaction(k) nor
\* revertReaction(k) changes the ledger or the messages.
Settled(msgs, opt, k) ==
  /\ k \notin DOMAIN opt
  /\ confirmReaction(opt, k) = opt
  /\ revertReaction(msgs, opt, k) =
       [messages |-> msgs, optimisticMessages |-> opt]

\* C18: confirmReaction(token) removes the ledger entry only; after
\* confirmReaction(token) or revertReaction(token) the token is out of the
\* ledger and a further confirm or revert with it changes neither the ledger
\* nor the messages, as does a confirm or revert with an unknown token.
C18_ConfirmAndRevertSettleToken ==
  \A k \in Keys :
    IF k \in DOMAIN optimisticMessages
    THEN /\ confirmReaction(optimisticMessages, k)
              = MapDelete(optimisticMessages, k)
         /\ Settled(messages, confirmReaction(optimisticMessages, k), k)
         /\ LET res == revertReaction(messages, optimisticMessages, k)
            IN  Settled(res.messages, res.optimisticMessages, k)
    ELSE Settled(messages, optimisticMessages, k)


\* C19: clearStaleOptimisticUpdates(maxAge) removes exactly the ledger
\* entries whose age is greater than maxAge and keeps every other entry as
\* it is (the messages are not touched by the sweep).
C19_SweepRemovesOlderOnly ==
  \A maxAge \in 1..MaxNow :
    clearStaleOptimisticUpdates(optimisticMessages, now, maxAge)
      = [k \in {x \in DOMAIN optimisticMessages :
                  ~(now - optimisticMessages[x].timestamp > maxAge)}
           |-> optimisticMessages[k]]


\* C20: every successful addReactionOptimistic records its entry under a
\* token that is in the ledger for no other entry, so that the ledger grows
\* by exactly one entry, also when the same message and emoji were reacted
\* to at the same clock reading before.
C20_FreshToken ==
  \A id \in MsgIds, e \in Emojis :
    LET res == addReactionOptimisticBasic(optimisticMessages, id, e, now)
    IN  /\ res.ret \notin DOMAIN optimisticMessages
        /\ Cardinality(DOMAIN res.optimisticMessages)
             = Cardinality(DOMAIN optimisticMessages) + 1


\* C21: the sync cursor lastUpdateTime never decreases over poll cycles,
\* retries and manual syncs; the only step that lowers it is the session
\* reset of a poll cycle (handleSessionChange), which sets it to 0.
C21_CursorMonotone ==
  [][lastUpdateTime' < lastUpdateTime
       => /\ pc = "info"
          /\ pc' = "participants"
          /\ lastUpdateTime' = 0]_vars

\* A poll cycle has advanced the cursor beyond the persisted one.
C21_Witness == lastUpdateTime > StartClock /\ pc = "idle"


\* The step is the catch block of a poll cycle scheduling a retry.
RetryScheduled ==
  /\ pc = "info"
  /\ pc' = "idle"
  /\ Len(retryTimeouts') = Len(retryTimeouts) + 1

\* C22: backoff growth: the retry scheduled after the n-th consecutive retry
\* has failed (n = retryCount, 0 for the first failure) is due after
\* min(RETRY_BASE * 2^n, RETRY_MAX) plus a jitter below 1000 ms.
C22_BackoffGrowth ==
  [][RetryScheduled
       => \E jitter \in Jitters :
            retryTimeouts'[Len(retryTimeouts')].left
              = Units(getRetryDelay(retryCount, jitter))]_vars


\* C23: polling never stops for good while the component is mounted: when
\* no poll cycle is running, a timer that will start one is pending, also
\* after the retries were used up or the error was not retryable, and also
\* while no session has been adopted.
C23_PollingGoesOn ==
  (isMounted /\ pc = "idle")
    => (syncTimeout # <<>> \/ retryTimeouts # <<>>)


\* C24: a manual refresh request is never silently dropped: after
\* manualSync() a poll cycle is running or a timer that will start one is
\* pending, also when the request came inside the minimum spacing.
C24_ManualSyncNotDropped ==
  [][ManualSync
       => (pc' # "idle" \/ syncTimeout' # <<>> \/ retryTimeouts' # <<>>)]_vars


\* C25: when the app comes back from the background, a poll cycle starts in
\* the same step and the scheduled poll is replaced by one whose delay is the
\* interval of the foreground state.
C25_ForegroundPollsAndReschedules ==
  [][(appState = "background" /\ appState' = "active")
       => /\ pc' # "idle"
          /\ syncTimeout' # <<>>
          /\ syncTimeout'[1].delay = getCurrentSyncInterval(World')]_vars


\* ---- getCurrentSyncInterval as a function of what it reads ------------------

ACTIVITY_TIMEOUT == 60000

MaxConsecutiveErrors == 6

\* AppState.currentState
AppStateValues == {"active", "inactive", "background"}

\* Date.now() - lastActivityRef.current
SinceActivityValues ==
  {0, ACTIVITY_TIMEOUT - 1, ACTIVITY_TIMEOUT, ACTIVITY_TIMEOUT + 1,
   2 * ACTIVITY_TIMEOUT}

\* timeSinceActivity > ACTIVITY_TIMEOUT
Idle(timeSinceActivity) == timeSinceActivity > ACTIVITY_TIMEOUT

\* The mounted hook with its refs holding any app state, any time of the
\* last activity and any number of consecutive errors.
InitGetIntervalSpec ==
  /\ InitQueue
  /\ answer = NoAnswer
  /\ now = StartClock
  /\ optimisticMessages = <<>>
  /\ returned = "undefined"
  /\ sending = FALSE
  /\ sendTemp = Null
  /\ sent = 0
  /\ reacting = <<>>
  /\ serverSession = "s1"
  /\ InitIntervalUnused
  /\ sinceActivity \in SinceActivityValues
  /\ interval = <<>>
  /\ grouped = <<>>
  /\ apiCall = NoCall
  /\ storage = RobustStorageAdapter([k \in StorageKeys |-> Null])
  /\ refresh = InitRefresh
  /\ pendingOps = <<>>
  /\ \E a \in AppStateValues, e \in 0..MaxConsecutiveErrors :
       SetWorld([MountedFresh EXCEPT !.appState = a,
                                     !.idle = Idle(sinceActivity),
                                     !.consecutiveErrors = e])

GetCurrentSyncInterval ==
  /\ interval = <<>>
  /\ interval' = <<getCurrentSyncInterval(World)>>
  /\ UNCHANGED <<queueVars, storeVars, syncVars, intervalVars, sinceActivity,
                 grouped, apiCall, storage, refresh,
                 pendingOps>>

NextGetInterval == GetCurrentSyncInterval

SpecGetInterval == InitGetIntervalSpec /\ [][NextGetInterval]_vars

\* The base interval of the state the hook reads.
BaseInterval ==
  IF appState = "background" THEN SYNC_INTERVALS_BACKGROUND
  ELSE IF sinceActivity > ACTIVITY_TIMEOUT THEN SYNC_INTERVALS_IDLE
  ELSE SYNC_INTERVALS_ACTIVE

\* C26: the interval computed is the base interval of the state (background
\* 120 s, else idle 300 s when the last activity is older than
\* ACTIVITY_TIMEOUT, else active 30 s), multiplied by min(consecutiveErrors,
\* 5) once errors are counted; it is never below the base interval and never
\* above five times it.
C26_IntervalOfState ==
  interval # <<>>
    => /\ interval[1] = IF consecutiveErrors > 0
                        THEN BaseInterval * Min(consecutiveErrors, 5)
                        ELSE BaseInterval
       /\ interval[1] >= BaseInterval
       /\ interval[1] <= 5 * BaseInterval

C26_Witness ==
  /\ consecutiveErrors > 5
  /\ sinceActivity > ACTIVITY_TIMEOUT
  /\ appState = "active"
  /\ interval = <<5 * SYNC_INTERVALS_IDLE>>


\* C27: once the liveness flag is cleared no step changes Message,
\* Participant or Session state or sets a timer (a poll in flight completes
\* without effect), and the teardown step leaves neither the schedule timer
\* nor a retry timer pending.
C27_TeardownDiscardsAndClears ==
  /\ [][~isMounted
          => /\ UNCHANGED <<messages, participants, sessionVars>>
             /\ syncTimeout' \in {syncTimeout, <<>>}
             /\ Len(retryTimeouts') <= Len(retryTimeouts)]_vars
  /\ [][(isMounted /\ ~isMounted')
          => (syncTimeout' = <<>> /\ retryTimeouts' = <<>>)]_vars


\* ---- sends, sync merges and refreshes over the basic store ------------------

\* addMessage(newMessage) with a message the server created
\* (MessageInput.jsx:19, InputBar.jsx:39).
AddMessage ==
  \E id \in MsgIds :
    /\ messages' = addMessage(messages, ServerMessage(id, <<>>))
    /\ returned' = Void
    /\ UNCHANGED <<optimisticMessages, now, sendVars, notStore>>

NextSend ==
  \/ Tick
  \/ AddMessage
  \/ UpdateMessage
  \/ Refresh
  \/ HandleSend
  \/ SendResolved
  \/ SendRejected

InitSendSpec ==
  /\ InitQueue /\ answer = NoAnswer /\ InitStoreRehydrated /\ InitSyncFresh
  /\ InitUtilUnused

SpecSend == InitSendSpec /\ [][NextSend]_vars

Failed(m) == "status" \in DOMAIN m /\ m.status = "failed"

\* C28: a rejected send turns the placeholder from sending to failed, and a
\* failed placeholder stays in Message state, failed and with its text, over
\* every later step (polls and refreshes included); here nothing retries or
\* discards it.
C28_FailedSendKept ==
  /\ [][SendRejected
          => \E j \in 1..Len(messages') :
               /\ messages'[j].uuid = sendTemp.uuid
               /\ Failed(messages'[j])]_vars
  /\ [][\A i \in 1..Len(messages) :
          Failed(messages[i])
            => \E j \in 1..Len(messages') :
                 /\ messages'[j].uuid = messages[i].uuid
                 /\ Failed(messages'[j])
                 /\ messages'[j].text = messages[i].text]_vars

\* C29: no two entries of Message state have the same id.
C29_UniqueIds ==
  \A i, j \in 1..Len(messages) :
    messages[i].uuid = messages[j].uuid => i = j

\* A send whose placeholder id was already in the list, next to a server
\* message.
C29_Witness ==
  /\ sending
  /\ sent > 0
  /\ Len(messages) >= 2
  /\ Cardinality({i \in 1..Len(messages) :
                    messages[i].uuid = sendTemp.uuid}) = 1


(***************************************************************************)
(* groupMessages (src/src/utils/groupMessages.js)                          *)
(***************************************************************************)
MaxMessages == 3

\* Timestamps count hours of local time; a calendar day has 24 of them.
DayLength == 24

CreatedAts == {0, DayLength - 1, DayLength, DayLength + 1, 2 * DayLength}

\* The participant of a server message carries a uuid, the placeholder of
\* handleSend (src/unnamed/part_015:23) carries only a name.
GroupParticipants ==
  {[name |-> "Ann", uuid |-> "p1"], [name |-> "Bob", uuid |-> "p2"],
   [name |-> "You"]}

GroupInputs ==
  UNION {[1..n -> [participant : GroupParticipants, createdAt : CreatedAts]] :
           n \in 0..MaxMessages}

\* JavaScript values of the flags: a boolean or undefined.
JsBool(b) == IF b THEN "true" ELSE "false"

\* a && b
JsAnd(a, b) == IF a \in {"false", "undefined"} THEN a ELSE b

\* !a
JsNot(a) == JsBool(a \in {"false", "undefined"})

\* m.participant?.uuid
ParticipantUuid(m) ==
  IF "uuid" \in DOMAIN m.participant THEN m.participant.uuid ELSE "undefined"

\* dayjs(a).isSame(b, 'day'): b lies between the start and the end of a's day.
isSameDay(a, b) ==
  LET startOfDay == a - (a % DayLength)
      endOfDay == startOfDay + DayLength - 1
  IN startOfDay <= b /\ b <= endOfDay

\* groupMessages taking the separator from the grouping flag.
groupMessagesSeparatorOfGroup(msgs) ==
  [i \in 1..Len(msgs) |->
     LET current == msgs[i]
         isSameSender ==
           IF i = 1 THEN "undefined"
           ELSE JsBool(ParticipantUuid(current) = ParticipantUuid(msgs[i - 1]))
         isSameDayFlag ==
           IF i = 1 THEN "undefined"
           ELSE JsBool(isSameDay(current.createdAt, msgs[i - 1].createdAt))
     IN Spread(current,
               [isGrouped |-> JsAnd(isSameSender, isSameDayFlag),
                dateSeparator |-> JsNot(JsAnd(isSameSender, isSameDayFlag))])]

\* groupMessages blanking the author of an element that joins a group.
groupMessagesHidingAuthor(msgs) ==
  [i \in 1..Len(msgs) |->
     LET current == msgs[i]
         isSameSender ==
           IF i = 1 THEN "undefined"
           ELSE JsBool(ParticipantUuid(current) = ParticipantUuid(msgs[i - 1]))
         isSameDayFlag ==
           IF i = 1 THEN "undefined"
           ELSE JsBool(isSameDay(current.createdAt, msgs[i - 1].createdAt))
         isGrouped == JsAnd(isSameSender, isSameDayFlag)
     IN Spread(current,
               [participant |-> IF isGrouped = "true" THEN [name |-> ""]
                                ELSE current.participant,
                isGrouped |-> isGrouped,
                dateSeparator |-> JsNot(isSameDayFlag)])]

\* groupMessages(messages): prev is undefined for the first message.
groupMessages(msgs) ==
  [i \in 1..Len(msgs) |->
     LET current == msgs[i]
         isSameSender ==
           IF i = 1 THEN "undefined"
           ELSE JsBool(ParticipantUuid(current) = ParticipantUuid(msgs[i - 1]))
         isSameDayFlag ==
           IF i = 1 THEN "undefined"
           ELSE JsBool(isSameDay(current.createdAt, msgs[i - 1].createdAt))
     IN Spread(current,
               [isGrouped |-> JsAnd(isSameSender, isSameDayFlag),
                dateSeparator |-> JsNot(isSameDayFlag)])]

InitGroupSpec ==
  /\ InitQueue
  /\ answer = NoAnswer
  /\ messages \in GroupInputs
  /\ optimisticMessages = <<>>
  /\ now = 0
  /\ returned = "undefined"
  /\ sending = FALSE
  /\ sendTemp = Null
  /\ sent = 0
  /\ reacting = <<>>
  /\ InitSyncFresh
  /\ sinceActivity = 0
  /\ interval = <<>>
  /\ grouped = <<>>
  /\ apiCall = NoCall
  /\ storage = RobustStorageAdapter([k \in StorageKeys |-> Null])
  /\ refresh = InitRefresh
  /\ pendingOps = <<>>

GroupMessages ==
  /\ grouped = <<>>
  /\ grouped' = <<groupMessages(messages)>>
  /\ UNCHANGED <<queueVars, storeVars, syncVars, intervalVars, sinceActivity,
                 interval, apiCall, storage, refresh,
                 pendingOps>>

NextGroup == GroupMessages

SpecGroup == InitGroupSpec /\ [][NextGroup]_vars

CalendarDay(t) == t \div DayLength

ApiFns == {"sendMessage", "sendReaction"}

\* error.response?.status of a failed attempt; 0 stands for an error without
\* a response (undefined, which is not >= 500).
ErrorStatuses == {0, 400, 404, 405, 409, 500, 503}

\* What the caller of sendMessage gets when withRetry throws: the catch wraps
\* the error.
sendMessageCatch(status) == "Failed to send message"

\* What the caller of sendReaction gets when withRetry throws: the try block
\* returns the promise of withRetry without awaiting it, so the rejection
\* passes by the catch block and reaches the caller as it is.
sendReactionCatch(status) == "error"

\* withRetry retrying after any error while retries are left.
withRetryCatchAnyError(a, status) ==
  IF a.retries > 0
  THEN [a EXCEPT !.pc = "delay", !.errors = Append(@, status)]
  ELSE [a EXCEPT !.pc = "done", !.errors = Append(@, status),
                 !.outcome = IF a.fn = "sendMessage"
                             THEN sendMessageCatch(status)
                             ELSE sendReactionCatch(status)]

\* The catch block of withRetry on an error with that status, and what the
\* function that called withRetry makes of a throw.
withRetryCatch(a, status) ==
  IF a.retries > 0 /\ status >= 500
  THEN [a EXCEPT !.pc = "delay", !.errors = Append(@, status)]
  ELSE [a EXCEPT !.pc = "done", !.errors = Append(@, status),
                 !.outcome = IF a.fn = "sendMessage"
                             THEN sendMessageCatch(status)
                             ELSE sendReactionCatch(status)]

InitApiSpec ==
  /\ InitQueue /\ answer = NoAnswer /\ InitStore /\ InitSyncFresh
  /\ InitUtilUnused

\* sendMessage(text) / sendReaction(messageId, emoji): withRetry(fn) makes the
\* first attempt.
ApiCall ==
  \E f \in ApiFns :
    /\ apiCall.pc = "idle"
    /\ apiCall' = [fn |-> f, pc |-> "fn", retries |-> MAX_RETRIES,
               calledTimes |-> 1, errors |-> <<>>, outcome |-> "pending"]
    /\ UNCHANGED <<queueVars, storeVars, syncVars, intervalVars, sinceActivity,
                   interval, grouped, storage, refresh,
                 pendingOps>>

\* `await fn()` fulfilled.
FnResolved ==
  /\ apiCall.pc = "fn"
  /\ apiCall' = [apiCall EXCEPT !.pc = "done", !.outcome = "resolved"]
  /\ UNCHANGED <<queueVars, storeVars, syncVars, intervalVars, sinceActivity,
                 interval, grouped, storage, refresh,
                 pendingOps>>

\* `await fn()` rejected.
FnRejected ==
  \E status \in ErrorStatuses :
    /\ apiCall.pc = "fn"
    /\ apiCall' = withRetryCatch(apiCall, status)
    /\ UNCHANGED <<queueVars, storeVars, syncVars, intervalVars, sinceActivity,
                   interval, grouped, storage, refresh,
                 pendingOps>>

\* RETRY_DELAY has passed: withRetry(fn, retries - 1).
RetryDelayElapsed ==
  /\ apiCall.pc = "delay"
  /\ apiCall' = [apiCall EXCEPT !.pc = "fn", !.retries = @ - 1, !.calledTimes = @ + 1]
  /\ UNCHANGED <<queueVars, storeVars, syncVars, intervalVars, sinceActivity,
                 interval, grouped, storage, refresh,
                 pendingOps>>

NextApi ==
  \/ ApiCall
  \/ FnResolved
  \/ FnRejected
  \/ RetryDelayElapsed

SpecApi == InitApiSpec /\ [][NextApi]_vars

ApiFailed == apiCall.pc = "done" /\ apiCall.outcome # "resolved"

C33_MockWhenEndpointMissing ==
  (ApiFailed /\ apiCall.fn = "sendReaction")
    => IF apiCall.errors[Len(apiCall.errors)] \in {404, 405}
       THEN apiCall.outcome = "mock"
       ELSE apiCall.outcome # "mock"


(***************************************************************************)
(* Robust storage adapter (src/src/utils/storageUtils.js:206-273)          *)
(***************************************************************************)
Fulfilled(op, key, value) ==
  [op |-> op, key |-> key, settled |-> "fulfilled", value |-> value]

Rejected(op, key) ==
  [op |-> op, key |-> key, settled |-> "rejected", value |-> Void]

\* getItem(key); `fails`: the primary storage rejects or throws.
getItem(s, key, fails) ==
  IF s.usingFallback
  THEN [s EXCEPT !.ret = Fulfilled("getItem", key, s.fallback[key])]
  ELSE IF ~fails
  THEN [s EXCEPT !.ret = Fulfilled("getItem", key, s.primary[key])]
  ELSE [s EXCEPT !.usingFallback = TRUE,
                 !.ret = Fulfilled("getItem", key, s.fallback[key])]

\* setItem awaiting the primary storage outside a try block.
setItemUncaught(s, key, value, fails) ==
  IF s.usingFallback
  THEN [s EXCEPT !.fallback[key] = value,
                 !.ret = Fulfilled("setItem", key, Void)]
  ELSE IF ~fails
  THEN [s EXCEPT !.primary[key] = value,
                 !.ret = Fulfilled("setItem", key, Void)]
  ELSE [s EXCEPT !.ret = Rejected("setItem", key)]

\* setItem(key, value)
setItem(s, key, value, fails) ==
  IF s.usingFallback
  THEN [s EXCEPT !.fallback[key] = value,
                 !.ret = Fulfilled("setItem", key, Void)]
  ELSE IF ~fails
  THEN [s EXCEPT !.primary[key] = value,
                 !.ret = Fulfilled("setItem", key, Void)]
  ELSE [s EXCEPT !.usingFallback = TRUE, !.fallback[key] = value,
                 !.ret = Fulfilled("setItem", key, Void)]

\* removeItem(key)
removeItem(s, key, fails) ==
  IF s.usingFallback
  THEN [s EXCEPT !.fallback[key] = Null,
                 !.ret = Fulfilled("removeItem", key, Void)]
  ELSE IF ~fails
  THEN [s EXCEPT !.primary[key] = Null,
                 !.ret = Fulfilled("removeItem", key, Void)]
  ELSE [s EXCEPT !.usingFallback = TRUE, !.fallback[key] = Null,
                 !.ret = Fulfilled("removeItem", key, Void)]

\* The adapter over a primary storage holding anything an earlier run left.
InitStorageSpec ==
  /\ InitQueue /\ answer = NoAnswer /\ InitStore /\ InitSyncFresh
  /\ sinceActivity = 0
  /\ interval = <<>>
  /\ grouped = <<>>
  /\ apiCall = NoCall
  /\ \E primary \in [StorageKeys -> StorageValues \cup {Null}] :
       storage = RobustStorageAdapter(primary)
  /\ refresh = InitRefresh
  /\ pendingOps = <<>>

StorageFrame ==
  UNCHANGED <<queueVars, storeVars, syncVars, intervalVars, sinceActivity,
              interval, grouped, apiCall, refresh,
                 pendingOps>>

GetItem ==
  \E key \in StorageKeys, fails \in BOOLEAN :
    storage' = getItem(storage, key, fails) /\ StorageFrame

SetItem ==
  \E key \in StorageKeys, value \in StorageValues, fails \in BOOLEAN :
    storage' = setItem(storage, key, value, fails) /\ StorageFrame

RemoveItem ==
  \E key \in StorageKeys, fails \in BOOLEAN :
    storage' = removeItem(storage, key, fails) /\ StorageFrame

NextStorage ==
  \/ GetItem
  \/ SetItem
  \/ RemoveItem

SpecStorage == InitStorageSpec /\ [][NextStorage]_vars

\* C34: no call of the adapter rejects; the in-memory fallback holds nothing
\* before the first failure of the primary storage; once the adapter uses
\* the fallback it goes on using it, leaves the primary storage alone, and
\* every getItem reads the fallback (null for a key not written since).
C34_FailuresStayInside ==
  /\ [](storage.ret.settled # "rejected")
  /\ [](~storage.usingFallback
          => \A k \in StorageKeys : storage.fallback[k] = Null)
  /\ [][storage.usingFallback
          => /\ storage'.usingFallback
             /\ storage'.primary = storage.primary
             /\ storage'.ret.op = "getItem"
                  => storage'.ret.value = storage.fallback[storage'.ret.key]]_vars

\* After a failure, a key the primary storage holds reads as null and a key
\* written since reads as written.
C34_Witness ==
  /\ storage.usingFallback
  /\ storage.primary["chat-session"] # Null
  /\ storage.fallback["chat-session"] = Null
  /\ storage.fallback["chat-messages"] # Null
  /\ storage.ret = Fulfilled("getItem", "chat-session", Null)


(***************************************************************************)
(* useChatRefresh (src/unnamed/part_017:85-152) with executeSyncOperation  *)
(* being execute of useAsyncOperation (src/unnamed/part_018:279)           *)
(***************************************************************************)
MaxRefreshes == 2

\* error.response?.status of a failed fetchLatestMessages (0: no response).
RefreshErrors == {0, 409, 500}

RefreshFrame ==
  UNCHANGED <<queueVars, optimisticMessages, now, returned, sendVars, syncVars,
              intervalVars, sinceActivity, interval, grouped, apiCall,
              storage, pendingOps>>

\* performRefresh up to `await executeSyncOperation(...)`.
performRefresh(r) ==
  [r EXCEPT !.refreshing = TRUE, !.syncError = Null, !.fetching = @ + 1]

\* Pull to refresh: performRefresh of the current render.
PerformRefresh ==
  /\ ~refresh.refreshing
  /\ refresh.fetching < MaxRefreshes
  /\ refresh' = performRefresh(refresh)
  /\ messages' = messages
  /\ RefreshFrame

\* The fetch fulfilled: onSuccess(result), then the finally block.
RefreshResolvedWith(result) ==
  /\ refresh.fetching > 0
  /\ messages' = setMessages(result)
  /\ refresh' = [refresh EXCEPT !.connectionStatus = "connected",
                                !.refreshing = FALSE, !.fetching = @ - 1]
  /\ RefreshFrame

RefreshResolved == \E result \in ServerMessageLists : RefreshResolvedWith(result)

\* The fetch rejected: onError(error), the catch and the finally block.
RefreshRejectedWith(status) ==
  /\ refresh.fetching > 0
  /\ messages' = messages
  /\ refresh' = [refresh EXCEPT !.syncError = "error",
                                !.connectionStatus = "disconnected",
                                !.alert = IF status # 409 THEN TRUE ELSE @,
                                !.refreshing = FALSE, !.fetching = @ - 1]
  /\ RefreshFrame

RefreshRejected == \E status \in RefreshErrors : RefreshRejectedWith(status)

\* 'Retry' of the dialog: performRefresh of the render the failed refresh
\* began in, where state.refreshing was false.
AlertRetry ==
  /\ refresh.alert
  /\ refresh.fetching < MaxRefreshes
  /\ refresh' = performRefresh([refresh EXCEPT !.alert = FALSE])
  /\ messages' = messages
  /\ RefreshFrame

\* 'OK' of the dialog.
AlertOk ==
  /\ refresh.alert
  /\ refresh' = [refresh EXCEPT !.alert = FALSE]
  /\ messages' = messages
  /\ RefreshFrame

NextRefresh ==
  \/ PerformRefresh
  \/ RefreshResolved
  \/ RefreshRejected
  \/ AlertRetry
  \/ AlertOk

InitRefreshSpec ==
  /\ InitQueue /\ answer = NoAnswer /\ InitStoreRehydrated /\ InitSyncFresh
  /\ InitUtilUnused

SpecRefresh == InitRefreshSpec /\ [][NextRefresh]_vars

\* C35: a successful refresh leaves Message state equal to the fetched list
\* and the status connected; a failed refresh leaves Message state as it was
\* and the status disconnected, shows in nothing but the status (no dialog
\* opens), and the status stays disconnected until a refresh succeeds; every
\* refresh ends with the refreshing flag false.
C35_RefreshOutcome ==
  /\ [][\A result \in ServerMessageLists :
          RefreshResolvedWith(result)
            => /\ messages' = result
               /\ refresh'.connectionStatus = "connected"
               /\ ~refresh'.refreshing]_vars
  /\ [][\A status \in RefreshErrors :
          RefreshRejectedWith(status)
            => /\ messages' = messages
               /\ refresh'.connectionStatus = "disconnected"
               /\ ~refresh'.refreshing
               /\ refresh'.alert = refresh.alert]_vars
  /\ [][(refresh.connectionStatus = "disconnected"
           /\ refresh'.connectionStatus # "disconnected")
          => \E result \in ServerMessageLists : RefreshResolvedWith(result)]_vars


\* C36: a retry timer that fires while the component is mounted and no poll
\* is in progress starts a poll attempt: the rate limiter never discards it.
C36_RetryStartsPoll ==
  [][(RetryTimerFire /\ isMounted /\ pc = "idle") => pc' = "info"]_vars


\* C37: no server-side change is skipped by the cursor. The delta requests of
\* a cycle, issued at sentAt with the cursor lastUpdateTime, answer with the
\* changes between the cursor and their issue; so a cycle may move the cursor
\* no further than sentAt, and only when both requests succeeded.
C37_NoChangeSkipped ==
  [][\A messagesOk \in BOOLEAN, participantsOk \in BOOLEAN,
        mdelta \in MessageDeltas, pdelta \in ParticipantDeltas(serverSession) :
       (BatchSettledWith(messagesOk, mdelta, participantsOk, pdelta)
        /\ isMounted)
       => lastUpdateTime' <= IF messagesOk /\ participantsOk
                             THEN cyc[1].sentAt
                             ELSE lastUpdateTime]_vars

(***************************************************************************)
(* Session reset under the chat screen's requests in flight               *)
(* (src/src/hooks/useChatSync.js:127-149, MessageInput.jsx:13-27,          *)
(* ChatScreen.jsx:183-215 and 250-299).  The hook polls on manualSync;     *)
(* the server answers a request with the data of the session it ran when   *)
(* it took the request, and the answer may arrive after a reset.           *)
(***************************************************************************)
\* The uuids the server gives the messages of session s.
MessageIdsOf(s) == IF s = "s1" THEN MsgIds ELSE {"n1"}

\* What GET /messages/latest may answer while the server runs session s.
LatestMessagesOf(s) ==
  IF s = "s1" THEN ServerMessageLists
  ELSE {<<>>, <<ServerMessage("n1", <<>>)>>}

Pending(op) == \E i \in 1..Len(pendingOps) : pendingOps[i].op = op

ScreenFrame ==
  UNCHANGED <<queueVars, optimisticMessages, now, returned, sendVars, syncVars,
              intervalVars, sinceActivity, interval, grouped, apiCall,
              storage, refresh>>

\* MessageInput.handleSend up to `await sendMessage(text.trim())`.
InputSend ==
  /\ ~Pending("send")
  /\ pendingOps' = Append(pendingOps, [op |-> "send", session |-> serverSession])
  /\ UNCHANGED messages
  /\ ScreenFrame

\* sendMessage fulfilled with newMessage: addMessage(newMessage); finally.
InputSendResolved ==
  \E i \in 1..Len(pendingOps) :
    /\ pendingOps[i].op = "send"
    /\ \E id \in MessageIdsOf(pendingOps[i].session) :
         messages' = addMessage(messages, ServerMessage(id, <<>>))
    /\ pendingOps' = RemoveAt(pendingOps, i)
    /\ ScreenFrame

\* onRefresh up to `await fetchLatestMessages()`.
OnRefresh ==
  /\ ~Pending("refresh")
  /\ pendingOps' =
       Append(pendingOps, [op |-> "refresh", session |-> serverSession])
  /\ UNCHANGED messages
  /\ ScreenFrame

\* fetchLatestMessages fulfilled: setMessages(latestMessages); finally.
OnRefreshResolved ==
  \E i \in 1..Len(pendingOps) :
    /\ pendingOps[i].op = "refresh"
    /\ \E latest \in LatestMessagesOf(pendingOps[i].session) :
         messages' = setMessages(latest)
    /\ pendingOps' = RemoveAt(pendingOps, i)
    /\ ScreenFrame

NextReset ==
  \/ ServerRotate
  \/ ManualSync
  \/ InfoResolved
  \/ ParticipantsResolved
  \/ InputSend
  \/ InputSendResolved
  \/ OnRefresh
  \/ OnRefreshResolved
  \/ HandleReact
  \/ \E i \in 1..MaxReacting : ReactResolved(i)

\* The screen over a stored session s1 and the messages a refresh loaded.
InitResetSpec ==
  /\ InitQueue
  /\ answer = NoAnswer
  /\ optimisticMessages = <<>>
  /\ now = StartClock
  /\ returned = "undefined"
  /\ sending = FALSE
  /\ sendTemp = Null
  /\ sent = 0
  /\ reacting = <<>>
  /\ serverSession = "s1"
  /\ InitIntervalUnused
  /\ InitUtilUnused
  /\ \E msgs \in ServerMessageLists \cup {<<>>} :
       SetWorld(Mounted("s1", 1, 0, msgs, AllParticipantsOf("s1")))

SpecReset == InitResetSpec /\ [][NextReset]_vars

\* C38: once the session has been reset (the store holds the new session
\* s2), Message state holds no message of the previous session, whatever
\* request was in flight during the reset and completes after it.
C38_NoOldSessionData ==
  sessionUuid = "s2"
    => \A i \in 1..Len(messages) : messages[i].uuid \notin MessageIdsOf("s1")

\* C39: in every reachable state each ledger entry's messageId is the uuid of
\* a message present in Message state.
C39_LedgerRefersToMessages ==
  \A key \in DOMAIN optimisticMessages :
    FindIndex(messages, optimisticMessages[key].messageId) # 0

\* C40: the in-progress flag is released after every poll cycle: whenever no
\* call of performSyncBase is suspended at an await (the cycle succeeded,
\* returned early, was rate limited, failed with or without a retry, or the
\* component unmounted during the fetch), syncInProgress is false.
C40_FlagReleased == pc = "idle" => ~syncInProgress

\* A cycle failed, scheduled its retry and released the flag.
C40_Witness ==
  /\ pc = "idle"
  /\ isMounted
  /\ consecutiveErrors > 0
  /\ retryTimeouts # <<>>
  /\ ~syncInProgress
====
